---- MODULE Spec2Model ----
(***************************************************************************)
(* A model of the cl_egans simulation tree: the Simulation root, its      *)
(* lifecycle (finalize, allocate, generate, run, release), the hook       *)
(* traversal of the node tree and the division/timestep loop of run().    *)
(*                                                                         *)
(* The tree is the one a spiking simulation script builds:                 *)
(*   1 Simulation                                                          *)
(*     2 SpikingModel                                                      *)
(*       3 State            4 InitializeFromHost, 5 Allocation "buffer"    *)
(*       6 AtomicReceiver   7 Allocation "in",    8 Allocation "out"       *)
(*       9 PerElementProbe 10 AccumulateOnHost,  11 Allocation "buffer"    *)
(*      14 AtomicSender                                                    *)
(*    12 Model                                                             *)
(*    13 Model                                                             *)
(* Nodes 5, 7, 8 and 11 are created lazily by their owners; the models 12  *)
(* and 13 are added by the script, in this order, after the first one.     *)
(* The sender 14 is part of the tree only in a script that sends spikes;   *)
(* such a script points it at the receiver's "out" allocation.             *)
(***************************************************************************)
EXTENDS Integers, Sequences, FiniteSets, TLC

\* ------------------------------------------------------------------ bounds
MaxRealizations == 3
MaxTimesteps == 2
MaxFinalizeAttempts == 2
MaxCount == 3
MaxProbeTimesteps == 4
MaxCapacity == 3
MaxWorkItems == 2
MaxWindow == 3

\* -------------------------------------------------------------------- tree
Root == 1
Nodes == 1 .. 14
Parent == <<0, 1, 2, 3, 3, 2, 6, 6, 2, 9, 9, 1, 1, 2>>
Kind == <<"Simulation", "SpikingModel", "State", "InitializeFromHost",
          "Allocation", "AtomicReceiver", "Allocation", "Allocation",
          "PerElementProbe", "AccumulateOnHost", "Allocation",
          "Model", "Model", "AtomicSender">>
Children == << <<2, 12, 13>>, <<3, 6, 9, 14>>, <<4, 5>>, <<>>, <<>>, <<7, 8>>,
               <<>>, <<>>, <<10, 11>>, <<>>, <<>>, <<>>, <<>>, <<>> >>
LazyNodes == {5, 7, 8, 11}
AddedModels == <<12, 13>>
ProbeNode == 9
MemoryNodes == {5, 7, 8, 11}
StateAllocation == 5
AllocIn == 7
AllocOut == 8
ProbeAllocation == 11
SenderNode == 14

\* The hook names a node class defines (own and inherited methods).
Defines(kind) ==
    CASE kind = "Simulation" ->
            {"post_finalize", "on_release", "in_step_kernel",
             "in_step_kernel_body", "in_thread_idx_calculations",
             "in_main_loop", "in_loop_body", "in_element_idx_calculations"}
      [] kind = "Model" -> {"in_model_idx_calculations"}
      [] kind = "SpikingModel" ->
            {"in_model_idx_calculations", "in_model_cl_code",
             "in_calculate_inputs", "in_spike_processing",
             "in_spike_generated", "in_no_spike_generated"}
      [] kind = "State" ->
            {"pre_finalize", "on_initialize_memory", "in_read_state",
             "in_independent_state_updates", "in_spike_state_updates",
             "in_no_spike_state_updates"}
      [] kind = "InitializeFromHost" -> {"on_finalize"}
      [] kind = "Allocation" -> {"on_allocate"}
      [] kind = "AtomicReceiver" ->
            {"pre_finalize", "on_initialize_memory", "on_prepare_step_fn_odd",
             "in_read_incoming_spikes"}
      [] kind = "PerElementProbe" ->
            {"on_finalize", "on_allocate", "on_timestep_complete"}
      [] kind = "AccumulateOnHost" -> {"on_allocate", "on_buffer_full"}
      [] kind = "AtomicSender" ->
            {"in_spike_propagation", "in_spike_send", "pre_step_kernel_body"}
      [] OTHER -> {}

\* Simulation.models: the Model children of the root, in insertion order.
Models == SelectSeq(Children[Root],
                    LAMBDA c : Kind[c] \in {"Model", "SpikingModel"})
ModelNodes == {Models[i] : i \in 1 .. Len(Models)}

\* Depth-first, pre-order listing of the subtree of n, children in the
\* order they were added.
RECURSIVE PreOrder(_), PreOrderAll(_)
PreOrder(n) == <<n>> \o PreOrderAll(Children[n])
PreOrderAll(cs) ==
    IF cs = <<>> THEN <<>> ELSE PreOrder(Head(cs)) \o PreOrderAll(Tail(cs))

\* The traversal order of every subtree.
Traversal == [n \in Nodes |-> PreOrder(n)]
\* The nodes of the subtree of n whose class defines the hook, in traversal
\* order: the traversal skips every other node.
Receivers(hook, n) ==
    SelectSeq(Traversal[n], LAMBDA m : hook \in Defines(Kind[m]))

\* ------------------------------------------------------------------- state
VARIABLES
    n_realizations,                  \* Simulation.n_realizations
    n_realizations_per_division_max, \* Simulation.n_realizations_per_division_max
    n_timesteps,                     \* Simulation.n_timesteps
    finalized,                       \* Simulation._finalized
    allocated,                       \* Simulation._allocated
    generated,                       \* Simulation._generated
    code,                            \* Simulation.code
    constants,                       \* Simulation.constants: name -> buffer (0: no entry)
    step_fn_even,                    \* lazy Simulation._step_fn_even
    step_fn_odd,                     \* lazy Simulation._step_fn_odd
    exists,                          \* the nodes created so far
    buffer,                          \* lazy MemoryNode.buffer (0: not realized)
    live,                            \* device buffers allocated and not released
    next_buf,                        \* the next fresh device buffer
    initializer,                     \* State.initializer is set
    reader_weights,                  \* terms AtomicReceiver.pre_finalize added to the target's reader
    probe_t_stop,                    \* PerElementProbe.t_range[1] (-1: None)
    probe_buffer_timepoints,         \* PerElementProbe.buffer_timepoints (-1: None)
    count,                           \* Model.count of each model (0: not added)
    trace,                           \* the events of the current (or last) call
    last_op,                         \* the current (or last) call
    result,                          \* how the last call ended
    pc,                              \* position of run()
    division_num,                    \* run(): division_num
    run_n_divisions,                 \* run(): the length of xrange(self.n_divisions)
    timestep,                        \* run(): timestep
    timestep_info,                   \* run(): the TimestepInfo of the division
    prev_run,                        \* the events of the run() that returned just before this call
    capacity,                        \* the number of buffers the device context can hold
    state_slots,                     \* the shape of State.allocation (-1: not created)
    elm,                             \* the indices a work item of the last launch has computed
    probe_code,                      \* the timepoint expression of the code the probe inserts ("none": not installed)
    code_probe,                      \* the timepoint expression of the probe in Simulation.code
    probe_window,                    \* the (start, stop, step) the probe is constructed with as t_range (and, for its lengths, as idx_range)
    probe_lengths,                   \* total_n_timesteps and n_elms of that probe, once evaluated
    spikes,                          \* the spikes held in device buffers: <<buffer, timestep of the send>>
    spike_updater,                   \* State.spike_updater ("None": None)
    no_spike_updater                 \* State.no_spike_updater ("None": None)

vars == <<n_realizations, n_realizations_per_division_max, n_timesteps,
          finalized, allocated, generated, code, constants, step_fn_even,
          step_fn_odd, exists, buffer, live, next_buf, initializer,
          reader_weights, probe_t_stop, probe_buffer_timepoints, count,
          trace, last_op, result, pc, division_num, run_n_divisions,
          timestep, timestep_info, prev_run, capacity, state_slots,
          elm, probe_code, code_probe, probe_window, probe_lengths,
          spikes, spike_updater, no_spike_updater>>

None == -1
NoArg == [div |-> None, t |-> None, rs |-> None, nr |-> None,
          elapsed |-> None, start |-> None, stop |-> None, slot |-> None,
          division_end |-> None, read |-> {}, count |-> None,
          updater |-> "None"]
NoLengths == [total_n_timesteps |-> None, n_elms |-> None]
NoElement == [idx_sim |-> None, realization_start |-> None,
              realization_num |-> None, idx_realization |-> None,
              idx_division |-> None, model |-> None, idx_model |-> None,
              idx_state |-> None]
NoKernel == [compiled |-> FALSE, bindings |-> [m \in MemoryNodes |-> 0],
             probe |-> "none"]

\* The part of the state the callbacks read and write, as one record.
Heap ==
    [n_realizations |-> n_realizations,
     n_realizations_per_division_max |-> n_realizations_per_division_max,
     n_timesteps |-> n_timesteps,
     finalized |-> finalized, allocated |-> allocated,
     generated |-> generated, code |-> code, constants |-> constants,
     step_fn_even |-> step_fn_even, step_fn_odd |-> step_fn_odd,
     exists |-> exists, buffer |-> buffer, live |-> live,
     next_buf |-> next_buf, initializer |-> initializer,
     reader_weights |-> reader_weights, probe_t_stop |-> probe_t_stop,
     probe_buffer_timepoints |-> probe_buffer_timepoints, count |-> count,
     capacity |-> capacity, state_slots |-> state_slots,
     probe_code |-> probe_code, code_probe |-> code_probe,
     spikes |-> spikes,
     trace |-> trace, raised |-> "none"]

CommitHeap(h) ==
    /\ n_realizations' = h.n_realizations
    /\ n_realizations_per_division_max' = h.n_realizations_per_division_max
    /\ n_timesteps' = h.n_timesteps
    /\ finalized' = h.finalized
    /\ allocated' = h.allocated
    /\ generated' = h.generated
    /\ code' = h.code
    /\ constants' = h.constants
    /\ step_fn_even' = h.step_fn_even
    /\ step_fn_odd' = h.step_fn_odd
    /\ exists' = h.exists
    /\ buffer' = h.buffer
    /\ live' = h.live
    /\ next_buf' = h.next_buf
    /\ initializer' = h.initializer
    /\ reader_weights' = h.reader_weights
    /\ probe_t_stop' = h.probe_t_stop
    /\ probe_buffer_timepoints' = h.probe_buffer_timepoints
    /\ count' = h.count
    /\ capacity' = h.capacity
    /\ state_slots' = h.state_slots
    /\ probe_code' = h.probe_code
    /\ code_probe' = h.code_probe
    /\ spikes' = h.spikes
    /\ UNCHANGED <<probe_window, probe_lengths, spike_updater,
                   no_spike_updater>>
    /\ trace' = h.trace
    /\ result' = IF h.raised = "none" THEN "ok" ELSE h.raised

\* The heap is computed once and then assigned.
Commit(heap) == \E h \in {heap} : CommitHeap(h)

\* ------------------------------------------------------------------ events
Event(ev, hook, node, a) ==
    [ev |-> ev, hook |-> hook, node |-> node, div |-> a.div, t |-> a.t,
     rs |-> a.rs, nr |-> a.nr, elapsed |-> a.elapsed,
     start |-> a.start, stop |-> a.stop, slot |-> a.slot,
     division_end |-> a.division_end, read |-> a.read, count |-> a.count,
     updater |-> a.updater]
Log(h, e) == [h EXCEPT !.trace = Append(@, e)]
\* The element of a one-element set: The({F(x) : x \in {v}}) computes v once
\* and applies the statements F that follow to it.
The(S) == CHOOSE r \in S : TRUE
Raise(h, err) == [h EXCEPT !.raised = err]

\* ------------------------------------------------------------ memory nodes
\* A lazily created Allocation child is constructed on first access.
Create(m, h) == [h EXCEPT !.exists = @ \cup {m}]

\* Allocation.fn, pyocl.Context.alloc: a fresh device buffer, or the error
\* of the device when it cannot hold another buffer.
Alloc(m, h) ==
    IF Cardinality(h.live) >= h.capacity THEN Raise(h, "MemoryError")
    ELSE [h EXCEPT !.buffer[m] = h.next_buf,
                   !.constants[m] = h.next_buf,
                   !.live = @ \cup {h.next_buf},
                   !.next_buf = @ + 1]

RealizeAlways(m, h) ==
    IF h.raised # "none" THEN h ELSE Alloc(m, h)
\* MemoryNode.buffer: realized on first access, registered in constants.
Realize(m, h) ==
    IF h.raised # "none" \/ h.buffer[m] # 0 THEN h ELSE Alloc(m, h)

ConfigValidNoUpperBound(nr, mx) == nr > 0 /\ mx > 0
\* Simulation._assert over the three assertions of post_finalize.
ConfigValid(nr, mx) == nr > 0 /\ mx > 0 /\ mx <= nr

\* ConstrainedProbe.total_n_timesteps: int((t_stop - t_start)/t_step), the
\* division of Python 2 integers.
TotalNTimesteps(t_range) == (t_range[2] - t_range[1]) \div t_range[3]

\* ConstrainedProbe.n_elms: int((idx_stop - idx_start/idx_step)), as the
\* parentheses of the source group it.
NElms(idx_range) == idx_range[2] - (idx_range[1] \div idx_range[3])

\* ConstrainedProbe._yield_t_constraints: the guards on the timestep that
\* constrain() joins into the if statement around the probe's statement; a
\* guard is left out when the window makes it vacuous.
YieldTConstraints(t_start, t_stop, t_step, n) ==
    (IF t_start > 0 THEN {"timestep >= t_start"} ELSE {})
        \cup (IF t_stop # n THEN {"timestep < t_stop"} ELSE {})
        \cup (IF t_step # 1 THEN {"timestep % t_step == 0"} ELSE {})

\* The if statement of the emitted guards, evaluated at timestep t.
Constrained(constraints, t, t_start, t_stop, t_step) ==
    /\ "timestep >= t_start" \in constraints => t >= t_start
    /\ "timestep < t_stop" \in constraints => t < t_stop
    /\ "timestep % t_step == 0" \in constraints => t % t_step = 0

ProbeSlotFirst(expr, t, bt) == IF expr = "none" THEN None ELSE 0
\* The timepoint of the probe buffer the kernel launched at timestep t
\* writes (None: no probe statement, or its guards do not admit t):
\* PerElementProbe.timestep_expr, the way _infer_buffer_timepoints has left
\* it.  The window and n_timesteps are what they were when the statement
\* was generated: the statement exists only once the probe is finalized.
ProbeSlot(expr, t, bt) ==
    LET t_start == probe_window[1]
        t_step == probe_window[3]
        timestep_expr == (t - t_start) \div t_step
    IN  IF expr = "none" THEN None
        ELSE IF ~Constrained(YieldTConstraints(t_start, probe_t_stop, t_step,
                                               n_timesteps),
                             t, t_start, probe_t_stop, t_step)
        THEN None
        ELSE IF expr = "timestep_expr" THEN timestep_expr
        ELSE timestep_expr % bt

TimestepsElapsedFromZero(t) == t
\* PerElementProbe.timesteps_elapsed: (timestep - t_start)/t_step + 1, the
\* division of Python 2 integers.
TimestepsElapsed(t) == (t - probe_window[1]) \div probe_window[3] + 1

\* AccumulateOnHost.on_allocate: the shape of the host buffer, without the
\* element dimension.
HostShape(h) ==
    [total_n_timesteps |->
         TotalNTimesteps(<<probe_window[1], h.probe_t_stop, probe_window[3]>>),
     n_realizations |-> h.n_realizations]

\* AccumulateOnHost.on_buffer_full: the slice of the host buffer the device
\* buffer is copied into, rows timestep_start:timesteps_elapsed and columns
\* division_start:division_end, every element.
HostRegion(a, h) ==
    [a EXCEPT !.start = a.elapsed - h.probe_buffer_timepoints,
              !.stop = a.elapsed,
              !.division_end = a.nr + a.rs]

OnReleaseBuffersOnly(h) == h
\* Simulation.on_release: the loop runs over the keys of constants, which are
\* names, never buffers; ctx.release_all() is called once per key.
OnRelease(h) ==
    IF \E m \in MemoryNodes : h.constants[m] # 0
    THEN [h EXCEPT !.live = {}, !.spikes = {}]
    ELSE h

\* clq.stdlib.ew_set_0 on the buffer of a memory node: every element is
\* set to zero.
EwSet0(m, h) ==
    IF h.raised # "none" THEN h
    ELSE [h EXCEPT !.spikes = {s \in @ : s[1] # h.buffer[m]}]

\* The ways a send of a work item can fall relative to the read and the
\* clearing of the same buffer element by another work item of the launch.
SendOrders == {"send_first", "send_between", "send_last"}
\* The order matters only to a kernel that reads and sends on one buffer.
Interleavings(fn) ==
    IF fn.bindings[AllocIn] = fn.bindings[AllocOut]
    THEN SendOrders ELSE {"send_last"}

\* One launch of the kernel fn at timestep t, for the buffers it is bound
\* to: AtomicReceiver.in_read_incoming_spikes reads the receiver's "in"
\* buffer and clears it, AtomicSender.in_spike_send adds a spike to the
\* receiver's "out" buffer.  The work items of a launch are not ordered;
\* when both names denote one buffer, the send falls before the read, after
\* the clearing, or between the two, in which case the spike is lost.
SpikeStep(fn, t, order, h) ==
    LET buffer_in == fn.bindings[AllocIn]
        buffer_out == fn.bindings[AllocOut]
        pending == {s \in h.spikes : buffer_in # 0 /\ s[1] = buffer_in}
        sent == IF SenderNode \in h.exists /\ buffer_out # 0
                THEN {<<buffer_out, t>>} ELSE {}
        same == buffer_in = buffer_out
    IN  [read |-> {s[2] : s \in pending}
                      \cup (IF same /\ order = "send_first"
                            THEN {s[2] : s \in sent} ELSE {}),
         spikes |-> (h.spikes \ pending)
                        \cup (IF same /\ order # "send_last"
                              THEN {} ELSE sent)]

\* The lazy property State.allocation: the Allocation child is constructed on
\* first access, with the shape computed from the configuration of that
\* moment.
allocation(h) ==
    IF StateAllocation \in h.exists THEN h
    ELSE [Create(StateAllocation, h) EXCEPT
              !.state_slots =
                  h.count[Parent[Parent[StateAllocation]]]
                      * h.n_realizations_per_division_max]

UsingIndependentUpdateNever == FALSE
\* State.using_independent_update
UsingIndependentUpdate == spike_updater = no_spike_updater

\* The statement allocation[idx_state] = <updater> a State appends to the
\* code of a hook, unless the updater is None.
EmitUpdate(hook, n, updater, h) ==
    IF updater = "None" THEN h
    ELSE Log(allocation(h),
             Event("emit", hook, n, [NoArg EXCEPT !.updater = updater]))

\* AtomicReceiver.on_prepare_step_fn_odd, statement by statement; the right
\* hand side of each assignment is evaluated (and may realize a buffer,
\* which registers it in constants) before the assignment is made.
OnPrepareStepFnOdd(h) ==
    The({IF h1.raised # "none" THEN h1
            ELSE The({IF h3.raised # "none" THEN h3
                         ELSE [h3 EXCEPT !.constants[AllocOut] =
                                             h3.buffer[AllocIn]] :
                      h3 \in {Realize(AllocIn,
                          [h1 EXCEPT !.constants[AllocIn] =
                                         h1.buffer[AllocOut]])}}) :
         h1 \in {Realize(AllocOut, Create(AllocOut, Create(AllocIn, h)))}})

\* ------------------------------------------------------------------ models
\* Simulation.models: the models added so far, in insertion order.
ModelsIn(h) == SelectSeq(Models, LAMBDA m : m \in h.exists)

\* Simulation._model_offsets: the generator yields the running offset, then
\* adds the count of the model.
RECURSIVE ModelOffsetsFrom(_, _, _)
ModelOffsetsFrom(ms, offset, h) ==
    IF ms = <<>> THEN <<>>
    ELSE <<offset>> \o ModelOffsetsFrom(Tail(ms), offset + h.count[Head(ms)], h)

ModelOffsetsFromOne(h) == ModelOffsetsFrom(ModelsIn(h), 1, h)
\* Simulation.model_offsets
ModelOffsets(h) == ModelOffsetsFrom(ModelsIn(h), 0, h)

\* Model.offset: the entry of the model in Simulation.model_offsets_map.
ModelOffset(m, h) ==
    LET ms == ModelsIn(h)
    IN  ModelOffsets(h)[CHOOSE i \in 1 .. Len(ms) : ms[i] = m]

\* Simulation.n_elms_per_realization: the sum of the model counts.
RECURSIVE SumCounts(_, _)
SumCounts(ms, h) ==
    IF ms = <<>> THEN 0 ELSE h.count[Head(ms)] + SumCounts(Tail(ms), h)
NElmsPerRealization(h) == SumCounts(ModelsIn(h), h)

RegionFromZero(m, h) == [start |-> 0, stop |-> h.count[m]]
\* The region Simulation.in_loop_body passes to Partitioner.next for a model.
RegionOf(m, h) ==
    [start |-> ModelOffset(m, h), stop |-> ModelOffset(m, h) + h.count[m]]

\* ---------------------------------------------------------- hook traversal
RECURSIVE Visit(_, _, _, _), Callback(_, _, _, _), TriggerHook(_, _, _, _)
RECURSIVE TriggerStagedCgHook(_, _, _), CgSequence(_, _, _)
RECURSIVE GenerateModels(_, _)

\* trigger_staged_hook(name): pre_<name>, on_<name>, post_<name>;
\* trigger_staged_cg_hook(name): pre_<name>, in_<name>, post_<name>.
StageNamesOnFirst(name) == <<"on_" \o name, "pre_" \o name, "post_" \o name>>
StageNames(name) == <<"pre_" \o name, "on_" \o name, "post_" \o name>>
CgStageNamesInFirst(name) ==
    <<"in_" \o name, "pre_" \o name, "post_" \o name>>
CgStageNames(name) == <<"pre_" \o name, "in_" \o name, "post_" \o name>>

\* trigger_hook(hook, *args) invoked on node n: the callbacks of the subtree
\* in depth-first pre-order; a node without the callback is skipped.  An
\* exception raised by a callback ends the traversal.
TriggerHook(hook, n, a, h) ==
    IF h.raised # "none" THEN h
    ELSE Visit(hook, Receivers(hook, n), a,
               Log(h, Event("trigger", hook, n, a)))

\* Each stage is a full traversal of the subtree.
TriggerStagedHook(name, n, a, h) ==
    LET s == StageNames(name)
    IN  TriggerHook(s[3], n, a,
            TriggerHook(s[2], n, a, TriggerHook(s[1], n, a, h)))

TriggerStagedCgHook(name, n, h) ==
    LET s == CgStageNames(name)
    IN  TriggerHook(s[3], n, NoArg,
            TriggerHook(s[2], n, NoArg, TriggerHook(s[1], n, NoArg, h)))

\* Several staged code generation hooks triggered one after the other.
CgSequence(names, n, h) ==
    IF names = <<>> \/ h.raised # "none" THEN h
    ELSE CgSequence(Tail(names), n, TriggerStagedCgHook(Head(names), n, h))

\* Simulation.in_loop_body, the loop over the models: the region of the
\* model is passed to the partitioner, which emits the guard and calls
\* Model.generate_step_kernel for the code of the region.
GenerateModels(ms, h) ==
    IF ms = <<>> THEN h
    ELSE LET r == RegionOf(Head(ms), h)
             h1 == Log(h, Event("region", "idx_realization", Head(ms),
                                [NoArg EXCEPT !.start = r.start,
                                              !.stop = r.stop]))
         IN  GenerateModels(Tail(ms),
                 CgSequence(<<"model_idx_calculations", "model_cl_code">>,
                            Head(ms), h1))

\* The nodes of ns are visited from the first to the last; a node created
\* by an earlier callback of the traversal is visited as well.
Visit(hook, ns, a, h) ==
    IF ns = <<>> THEN h
    ELSE LET n == ns[Len(ns)]
             h1 == Visit(hook, SubSeq(ns, 1, Len(ns) - 1), a, h)
         IN  IF h1.raised = "none" /\ n \in h1.exists
                                   /\ hook \in Defines(Kind[n])
             THEN Callback(hook, n, a,
                           Log(h1, Event("callback", hook, n, a)))
             ELSE h1

Callback(hook, n, a, h) ==
    CASE Kind[n] = "Simulation" /\ hook = "post_finalize" ->
            IF ConfigValid(h.n_realizations, h.n_realizations_per_division_max)
            THEN h ELSE Raise(h, "Error")
      [] Kind[n] = "Simulation" /\ hook = "on_release" -> OnRelease(h)
      [] Kind[n] = "State" /\ hook = "pre_finalize" ->
            allocation(h)
      [] Kind[n] = "State" /\ hook = "on_initialize_memory" ->
            \* initializer(self.allocation.buffer,
            \*             timestep_info.n_realizations*self.model.count)
            IF h.initializer
            THEN The({IF h1.raised # "none" THEN h1
                      ELSE Log(h1, Event("initializer", hook, n,
                                   [a EXCEPT !.count =
                                        a.nr * h1.count[Parent[n]]])) :
                      h1 \in {Realize(StateAllocation, allocation(h))}})
            ELSE h
      [] Kind[n] = "InitializeFromHost" /\ hook = "on_finalize" ->
            [h EXCEPT !.initializer = TRUE]
      [] Kind[n] = "Allocation" /\ hook = "on_allocate" -> Realize(n, h)
      [] Kind[n] = "AtomicReceiver" /\ hook = "pre_finalize" ->
            [h EXCEPT !.reader_weights = @ + 1]
      [] Kind[n] = "AtomicReceiver" /\ hook = "on_initialize_memory" ->
            EwSet0(AllocOut, Realize(AllocOut, Create(AllocOut,
                EwSet0(AllocIn, Realize(AllocIn, Create(AllocIn, h))))))
      [] Kind[n] = "AtomicReceiver" /\ hook = "on_prepare_step_fn_odd" ->
            OnPrepareStepFnOdd(h)
      [] Kind[n] = "PerElementProbe" /\ hook = "on_finalize" ->
            LET stop == IF h.probe_t_stop = None
                        THEN h.n_timesteps ELSE h.probe_t_stop
                total == TotalNTimesteps(<<probe_window[1], stop,
                                           probe_window[3]>>)
                bt == IF h.probe_buffer_timepoints = None
                      THEN total
                      ELSE h.probe_buffer_timepoints
                h1 == [h EXCEPT !.probe_t_stop = stop,
                                !.probe_buffer_timepoints = bt]
            IN  \* _infer_buffer_timepoints asserts that the buffer length
                \* divides the number of timesteps of the window, and then
                \* wraps timestep_expr; the probe's code is installed under
                \* its hook after that
                IF bt = total
                THEN [Create(ProbeAllocation, h1) EXCEPT
                          !.probe_code = "timestep_expr"]
                ELSE IF bt = 0 THEN Raise(h1, "ZeroDivisionError")
                ELSE IF total % bt # 0
                THEN Raise(h1, "AssertionError")
                ELSE [Create(ProbeAllocation, h1) EXCEPT
                          !.probe_code = "timestep_expr % buffer_timepoints"]
      [] Kind[n] = "PerElementProbe" /\ hook = "on_allocate" ->
            Create(ProbeAllocation, h)
      [] Kind[n] = "PerElementProbe" /\ hook = "on_timestep_complete" ->
            \* Python 2 orders None below every integer
            IF h.probe_t_stop # None /\ a.t < h.probe_t_stop
            THEN LET el == TimestepsElapsed(a.t)
                 IN  IF el > 0
                     THEN IF h.probe_buffer_timepoints = None
                          THEN Raise(h, "TypeError")
                          ELSE IF h.probe_buffer_timepoints = 0
                          THEN Raise(h, "ZeroDivisionError")
                          ELSE IF el % h.probe_buffer_timepoints = 0
                          THEN TriggerHook("on_buffer_full", n,
                                           [a EXCEPT !.elapsed = el], h)
                          ELSE h
                     ELSE h
            ELSE h
      [] Kind[n] = "AccumulateOnHost" /\ hook = "on_allocate" ->
            Realize(ProbeAllocation, Create(ProbeAllocation, h))
      [] Kind[n] = "AccumulateOnHost" /\ hook = "on_buffer_full" ->
            The({TriggerHook("on_process_data", Parent[n], a,
                     IF h1.raised # "none" THEN h1
                     ELSE Log(h1, Event("memcpy", hook, n,
                                        HostRegion(a, h1)))) :
                 h1 \in {Realize(ProbeAllocation, h)}})
      [] Kind[n] = "Simulation" /\ hook = "in_step_kernel" ->
            TriggerStagedCgHook("step_kernel_body", n, h)
      [] Kind[n] = "Simulation" /\ hook = "in_step_kernel_body" ->
            CgSequence(<<"thread_idx_calculations", "main_loop">>, n, h)
      [] Kind[n] = "Simulation" /\ hook = "in_main_loop" ->
            TriggerStagedCgHook("loop_body", n, h)
      [] Kind[n] = "Simulation" /\ hook = "in_loop_body" ->
            The({GenerateModels(ModelsIn(h1),
                        Log(h1, Event("partitioner", "idx_realization", n,
                                      [NoArg EXCEPT
                                           !.start = 0,
                                           !.stop =
                                               NElmsPerRealization(h1)]))) :
                 h1 \in {TriggerStagedCgHook("element_idx_calculations", n, h)}})
      [] Kind[n] = "SpikingModel" /\ hook = "in_model_cl_code" ->
            CgSequence(<<"read_incoming_spikes", "read_state",
                         "calculate_inputs", "state_calculations",
                         "independent_state_updates", "spike_processing">>,
                       n, h)
      [] Kind[n] = "SpikingModel" /\ hook = "in_spike_processing" ->
            CgSequence(<<"spike_generated", "no_spike_generated">>, n, h)
      [] Kind[n] = "SpikingModel" /\ hook = "in_spike_generated" ->
            CgSequence(<<"spike_state_updates", "spike_propagation">>, n, h)
      [] Kind[n] = "SpikingModel" /\ hook = "in_no_spike_generated" ->
            TriggerStagedCgHook("no_spike_state_updates", n, h)
      \* the identifier "allocation" in the emitted code is resolved by
      \* attribute lookup, which constructs the lazy Allocation
      [] Kind[n] = "State" /\ hook = "in_read_state" -> allocation(h)
      [] Kind[n] = "State" /\ hook = "in_independent_state_updates" ->
            IF UsingIndependentUpdate
            THEN EmitUpdate(hook, n, spike_updater, h)
            ELSE h
      [] Kind[n] = "State" /\ hook = "in_spike_state_updates" ->
            IF ~UsingIndependentUpdate
            THEN EmitUpdate(hook, n, spike_updater, h)
            ELSE h
      [] Kind[n] = "State" /\ hook = "in_no_spike_state_updates" ->
            IF ~UsingIndependentUpdate
            THEN EmitUpdate(hook, n, no_spike_updater, h)
            ELSE h
      [] Kind[n] = "AtomicReceiver" /\ hook = "in_read_incoming_spikes" ->
            Create(AllocIn, h)
      [] Kind[n] = "AtomicSender" /\ hook = "in_spike_propagation" ->
            TriggerStagedCgHook("spike_send", n, h)
      [] OTHER -> h

\* ---------------------------------------------------------------- finalize
\* Simulation.finalize
NeedsFinalizeAlways(h) == TRUE
NeedsFinalize(h) == ~h.finalized
Finalize(h) ==
    IF NeedsFinalize(h)
    THEN The({IF h1.raised # "none" THEN h1
                          ELSE [h1 EXCEPT !.finalized = TRUE] :
              h1 \in {TriggerStagedHook("finalize", Root, NoArg, h)}})
    ELSE h

Fresh == [Heap EXCEPT !.trace = <<>>]

\* A call other than run() leaves the frame of run() alone; the call before
\* it is then no longer a run().
RunFrameUnchanged ==
    /\ UNCHANGED <<pc, division_num, run_n_divisions, timestep, timestep_info,
                   elm>>
    /\ prev_run' = <<>>

DoFinalize ==
    /\ pc = "idle"
    /\ finalized \/ reader_weights < MaxFinalizeAttempts
    /\ Commit(Finalize(Fresh))
    /\ last_op' = "finalize"
    /\ RunFrameUnchanged

\* Attributes stay assignable until the specification is finalized.  The
\* constructor arguments are drawn in Init; afterwards the script reassigns
\* the realization counts to correct a configuration that finalization has
\* rejected.
Configure ==
    /\ pc = "idle"
    /\ ~finalized
    /\ last_op \in {"finalize", "allocate"} /\ result = "Error"
    /\ \E nr \in 0 .. MaxRealizations, mx \in 0 .. MaxRealizations :
          /\ n_realizations' = nr
          /\ n_realizations_per_division_max' = mx
    /\ last_op' = "configure"
    /\ trace' = <<>>
    /\ result' = "ok"
    /\ UNCHANGED <<n_timesteps, finalized, allocated, generated, code,
                   constants, step_fn_even, step_fn_odd, exists, buffer,
                   live, next_buf, initializer, reader_weights,
                   probe_t_stop, probe_buffer_timepoints, count, capacity,
                   state_slots, probe_code, code_probe, probe_window,
                   probe_lengths, spikes, spike_updater, no_spike_updater>>
    /\ RunFrameUnchanged

\* Model.__init__: a model with the given count is added under the root,
\* after the models added before it.
AddModel ==
    /\ pc = "idle"
    /\ ~finalized
    /\ \E i \in 1 .. Len(AddedModels) :
          /\ AddedModels[i] \notin exists
          /\ \A j \in 1 .. i - 1 : AddedModels[j] \in exists
          /\ exists' = exists \cup {AddedModels[i]}
          /\ \E c \in 1 .. MaxCount :
                count' = [count EXCEPT ![AddedModels[i]] = c]
    /\ last_op' = "add_model"
    /\ trace' = <<>>
    /\ result' = "ok"
    /\ UNCHANGED <<n_realizations, n_realizations_per_division_max,
                   n_timesteps, finalized, allocated, generated, code,
                   constants, step_fn_even, step_fn_odd, buffer, live,
                   next_buf, initializer, reader_weights, probe_t_stop,
                   probe_buffer_timepoints, capacity, state_slots,
                   probe_code, code_probe, probe_window, probe_lengths,
                   spikes, spike_updater, no_spike_updater>>
    /\ RunFrameUnchanged

\* ---------------------------------------------------------------- allocate
\* Simulation.allocate
AllocateNeverFinalizes(h) == FALSE
AllocateFinalizesFirst(h) == ~h.finalized
NeedsAllocateAlways(h) == TRUE
NeedsAllocate(h) == ~h.allocated
Allocate(h) ==
    The({IF h1.raised # "none" THEN h1
            ELSE IF NeedsAllocate(h1)
            THEN The({IF h2.raised # "none" THEN h2
                                  ELSE [h2 EXCEPT !.allocated = TRUE] :
                      h2 \in {TriggerStagedHook("allocate", Root, NoArg, h1)}})
            ELSE h1 :
         h1 \in {IF AllocateFinalizesFirst(h) THEN Finalize(h) ELSE h}})

DoAllocate ==
    /\ pc = "idle"
    /\ finalized \/ reader_weights < MaxFinalizeAttempts
    /\ Commit(Allocate(Fresh))
    /\ last_op' = "allocate"
    /\ RunFrameUnchanged

\* ----------------------------------------------------------------- release
\* Simulation.release
MayReleaseAlways(h) == TRUE
MayRelease(h) == h.allocated
ReleaseKeepsAllocated(h) ==
    IF MayRelease(h) THEN TriggerStagedHook("release", Root, NoArg, h)
    ELSE Raise(h, "Error")
Release(h) ==
    IF MayRelease(h)
    THEN The({IF h1.raised # "none" THEN h1
                          ELSE [h1 EXCEPT !.allocated = FALSE] :
              h1 \in {TriggerStagedHook("release", Root, NoArg, h)}})
    ELSE Raise(h, "Error")

DoRelease ==
    /\ pc = "idle"
    /\ Commit(Release(Fresh))
    /\ last_op' = "release"
    /\ RunFrameUnchanged

\* ---------------------------------------------------------------- generate
GenerateOnce(h) ==
    IF h.generated THEN h
    ELSE The({[h1 EXCEPT !.code = "step_fn", !.generated = TRUE,
                                     !.code_probe = h1.probe_code] :
              h1 \in {TriggerStagedCgHook("step_kernel", Root, h)}})
\* Simulation.generate; the code holds the statement of the probe when the
\* probe has installed it under its hook.
Generate(h) ==
    The({IF h1.raised # "none" THEN h1
            ELSE [h1 EXCEPT !.code = "step_fn", !.generated = TRUE,
                            !.code_probe = h1.probe_code] :
         h1 \in {TriggerStagedCgHook("step_kernel", Root, h)}})

DoGenerate ==
    /\ pc = "idle"
    /\ Commit(Generate(Fresh))
    /\ last_op' = "generate"
    /\ RunFrameUnchanged

\* --------------------------------------------------------------------- run
\* numpy.int32(x): the value itself inside the 32-bit range, wrapped around
\* outside of it.
Int32Max == 2147483647
Int32(x) ==
    IF x > Int32Max THEN ((x - Int32Max) - Int32Max) - 2
    ELSE IF x < (-Int32Max) - 1 THEN (x + Int32Max) + Int32Max + 2
    ELSE x

IntDivRoundDown(n, d) == n \div d
\* py.int_div_round_up(n, d) for d > 0
IntDivRoundUp(n, d) == (n + d - 1) \div d

\* The lazy properties Simulation._step_fn_even and _step_fn_odd: computed on
\* first access; the compiled function is bound to the constants at that
\* moment.
CachedNever(fn) == FALSE
\* py.lazy: the property is computed on first access and the value kept
Cached(fn) == fn.compiled

StepFnEven(h) ==
    IF Cached(h.step_fn_even) THEN h
    ELSE The({IF h1.raised # "none" THEN h1
                 ELSE The({[h2 EXCEPT !.step_fn_even =
                                   [compiled |-> TRUE,
                                    bindings |-> h2.constants,
                                    probe |-> h2.code_probe]] :
                           h2 \in {TriggerStagedHook("prepare_step_fn_even", Root,
                                             NoArg, h1)}}) :
              h1 \in {IF ~h.generated THEN Generate(h) ELSE h}})

StepFnOdd(h) ==
    IF Cached(h.step_fn_odd) THEN h
    ELSE The({IF h1.raised # "none" THEN h1
                 ELSE The({[h2 EXCEPT !.step_fn_odd =
                                   [compiled |-> TRUE,
                                    bindings |-> h2.constants,
                                    probe |-> h2.code_probe]] :
                           h2 \in {TriggerStagedHook("prepare_step_fn_odd", Root,
                                             NoArg, h1)}}) :
              h1 \in {IF ~h.generated THEN Generate(h) ELSE h}})

DivisionLoopResumes(d) == d
\* xrange(self.n_divisions) starts a run() at division 0, whatever division
\* the run() before it has ended with.
DivisionLoopStart(d) == 0

\* run(): from the entry to the evaluation of xrange(self.n_divisions).
RunBegin ==
    /\ pc = "idle"
    /\ \E even \in {StepFnEven(Fresh)} :
        \E h \in {TriggerHook("prepare_run", Root, NoArg, StepFnOdd(even))} :
              IF h.n_realizations_per_division_max = 0
              THEN /\ Commit(Raise(h, "ZeroDivisionError"))
                   /\ pc' = "idle"
                   /\ run_n_divisions' = 0
              ELSE /\ Commit(h)
                   /\ pc' = "division"
                   /\ run_n_divisions' =
                          IntDivRoundUp(h.n_realizations,
                                        h.n_realizations_per_division_max)
    /\ division_num' = DivisionLoopStart(division_num)
    /\ timestep' = 0
    /\ timestep_info' = NoArg
    /\ prev_run' = IF last_op = "run" /\ result = "ok" THEN trace ELSE <<>>
    /\ last_op' = "run"
    /\ elm' = NoElement

\* The realization count run() stores in the TimestepInfo of a division.
DivisionNRealizations(realization_start, max_realizations, total) ==
    LET n == realization_start + max_realizations
    IN  IF n > total THEN total - realization_start ELSE n

RealizationStart(d, max_realizations) == Int32(d * max_realizations)

\* run(): the head of the division loop, up to on_initialize_memory.
DivisionBegin ==
    /\ pc = "division"
    /\ division_num < run_n_divisions
    /\ LET rs == RealizationStart(division_num,
                                  n_realizations_per_division_max)
           ti == [NoArg EXCEPT
                      !.div = division_num, !.t = 0, !.rs = rs,
                      !.nr = DivisionNRealizations(rs,
                                 n_realizations_per_division_max,
                                 n_realizations)]
       IN  /\ timestep_info' = ti
           /\ Commit(TriggerHook("on_initialize_memory", Root, ti, Heap))
    /\ timestep' = Int32(0)
    /\ pc' = "timestep"
    /\ elm' = NoElement
    /\ UNCHANGED <<last_op, division_num, run_n_divisions, prev_run>>

StepFnAlwaysEven(t) == "step_fn_even"
\* The compiled step function run() calls at a timestep.
StepFnFor(t) == IF t % 2 = 0 THEN "step_fn_even" ELSE "step_fn_odd"

TimestepLoopOneMore(t, n) == t <= n
\* The condition of the timestep loop.
TimestepLoopContinues(t, n) == t < n

\* run(): one iteration of the timestep loop.
Timestep ==
    /\ pc = "timestep"
    /\ TimestepLoopContinues(timestep, n_timesteps)
    /\ \E order \in Interleavings(IF StepFnFor(timestep) = "step_fn_even"
                                   THEN step_fn_even ELSE step_fn_odd) :
       LET ti == [timestep_info EXCEPT !.t = timestep]
           fn == IF StepFnFor(timestep) = "step_fn_even"
                 THEN step_fn_even ELSE step_fn_odd
           step == SpikeStep(fn, timestep, order, Heap)
           launch == Event("launch", StepFnFor(timestep), 0,
                           [NoArg EXCEPT
                                !.t = timestep,
                                !.rs = timestep_info.rs,
                                !.slot = ProbeSlot(fn.probe, timestep,
                                             probe_buffer_timepoints),
                                !.read = step.read])
       IN  /\ timestep_info' = ti
           /\ \E h \in {TriggerHook("on_timestep_complete", Root, ti,
                                    Log([Heap EXCEPT !.spikes = step.spikes],
                                        launch))} :
                  /\ Commit(h)
                  \* an exception of a callback leaves run()
                  /\ pc' = IF h.raised # "none" THEN "idle" ELSE pc
    /\ timestep' = Int32(timestep + 1)
    /\ UNCHANGED <<last_op, division_num, run_n_divisions, prev_run, elm>>

\* run(): the end of a division.
DivisionComplete ==
    /\ pc = "timestep"
    /\ ~TimestepLoopContinues(timestep, n_timesteps)
    /\ Commit(TriggerHook("on_division_complete", Root, timestep_info, Heap))
    /\ division_num' = division_num + 1
    /\ pc' = "division"
    /\ elm' = NoElement
    /\ UNCHANGED <<last_op, run_n_divisions, timestep, timestep_info,
                   prev_run>>

RunEpilogueNoFlush(h) == TriggerHook("on_run_complete", Root, NoArg, h)
\* run(): the queue is flushed, then on_run_complete is triggered.
RunEpilogue(h) ==
    TriggerHook("on_run_complete", Root, NoArg,
                Log(h, Event("queue_finish", "finish", 0, NoArg)))

\* run(): after the last division.
RunComplete ==
    /\ pc = "division"
    /\ ~(division_num < run_n_divisions)
    /\ Commit(RunEpilogue(Heap))
    /\ pc' = "idle"
    /\ UNCHANGED <<last_op, division_num, run_n_divisions, timestep,
                   timestep_info, prev_run, elm>>

\* ------------------------------------------------------------ step kernel
\* The model whose region the partitioner's guard start <= idx_realization <
\* end selects (None when no guard holds).
RegionModel(idx_realization, h) ==
    LET ms == SelectSeq(ModelsIn(h),
                        LAMBDA m : /\ RegionOf(m, h).start <= idx_realization
                                   /\ idx_realization < RegionOf(m, h).stop)
    IN  IF ms = <<>> THEN None ELSE Head(ms)

\* The bounds of the main loop of the kernel launched with realization_start.
FirstIdxSim(realization_start, h) ==
    realization_start * NElmsPerRealization(h)
\* in_element_idx_calculations: idx_division = idx_sim - first_idx_sim
IdxDivision(idx_sim, first_idx_sim) == idx_sim - first_idx_sim
Min(a, b) == IF a < b THEN a ELSE b
LastIdxSim(realization_start, h) ==
    Min(FirstIdxSim(realization_start, h)
            + NElmsPerRealization(h) * h.n_realizations_per_division_max,
        NElmsPerRealization(h) * h.n_realizations)

\* The body of the main loop for one idx_sim: in_element_idx_calculations,
\* the region guard of the partitioner, in_model_idx_calculations and the
\* first statement of SpikingModel.in_model_cl_code.
LoopBody(idx_sim, realization_start, h) ==
    LET n_elms == NElmsPerRealization(h)
        first_idx_sim == FirstIdxSim(realization_start, h)
        realization_num == idx_sim \div n_elms
        realization_first_idx_sim == realization_num * n_elms
        idx_realization == idx_sim - realization_first_idx_sim
        idx_division == IdxDivision(idx_sim, first_idx_sim)
        model == RegionModel(idx_realization, h)
        idx_model == IF model = None THEN None
                     ELSE idx_realization - ModelOffset(model, h)
        idx_state == IF model = None \/ Kind[model] # "SpikingModel" THEN None
                     ELSE idx_model
                          + (realization_num - realization_start)
                                * h.count[model]
    IN  [idx_sim |-> idx_sim, realization_start |-> realization_start,
         realization_num |-> realization_num,
         idx_realization |-> idx_realization,
         idx_division |-> idx_division, model |-> model,
         idx_model |-> idx_model, idx_state |-> idx_state]

MainLoopEveryItem(gid, gsize, realization_start, h) ==
    FirstIdxSim(realization_start, h) .. LastIdxSim(realization_start, h) - 1
\* in_main_loop: the values of idx_sim the work item gid of gsize iterates
\* over, for idx_sim in (first_idx_sim + gid, last_idx_sim, gsize).
MainLoop(gid, gsize, realization_start, h) ==
    LET first == FirstIdxSim(realization_start, h) + gid
        last == LastIdxSim(realization_start, h)
    IN  {idx_sim \in first .. last - 1 : (idx_sim - first) % gsize = 0}

\* One iteration of the main loop of a work item of the kernel run() has
\* launched in this division.
StepFn ==
    /\ pc = "timestep"
    /\ timestep >= 1
    /\ \E gsize \in 1 .. MaxWorkItems :
          \E gid \in 0 .. gsize - 1 :
              \E idx_sim \in MainLoop(gid, gsize, timestep_info.rs, Heap) :
                  elm' = LoopBody(idx_sim, timestep_info.rs, Heap)
    /\ UNCHANGED <<n_realizations, n_realizations_per_division_max,
                   n_timesteps, finalized, allocated, generated, code,
                   constants, step_fn_even, step_fn_odd, exists, buffer,
                   live, next_buf, initializer, reader_weights,
                   probe_t_stop, probe_buffer_timepoints, count, trace,
                   last_op, result, pc, division_num, run_n_divisions,
                   timestep, timestep_info, prev_run, capacity, state_slots,
                   probe_code, code_probe, probe_window, probe_lengths,
                   spikes, spike_updater, no_spike_updater>>

\* ------------------------------------------------------------ probe shape
\* The properties total_n_timesteps and n_elms of a ConstrainedProbe whose
\* t_range and idx_range are the window, as PerElementProbe.shape reads them.
Shape ==
    /\ pc = "idle"
    /\ probe_window[2] # None
    /\ probe_lengths = NoLengths
    /\ probe_lengths' = [total_n_timesteps |-> TotalNTimesteps(probe_window),
                         n_elms |-> NElms(probe_window)]
    /\ UNCHANGED <<n_realizations, n_realizations_per_division_max,
                   n_timesteps, finalized, allocated, generated, code,
                   constants, step_fn_even, step_fn_odd, exists, buffer,
                   live, next_buf, initializer, reader_weights,
                   probe_t_stop, probe_buffer_timepoints, count, trace,
                   last_op, result, pc, division_num, run_n_divisions,
                   timestep, timestep_info, prev_run, capacity, state_slots,
                   elm, probe_code, code_probe, probe_window, spikes,
                   spike_updater, no_spike_updater>>

\* -------------------------------------------------------------------- init
\* The state after the script has built the tree: the constructor arguments
\* of the Simulation, of the probe and of the first model.
DefaultCount == [m \in ModelNodes |-> IF m = Models[1] THEN 1 ELSE 0]
\* The nodes the script has constructed: not the lazily created ones, not
\* the models it has not added, and no sender.
ScriptNodes(c) ==
    (Nodes \ (LazyNodes \cup {SenderNode})) \ {m \in ModelNodes : c[m] = 0}
AmpleCapacity == Cardinality(MemoryNodes)
InitTree(nr, mx, nt, bt, c, cap) ==
    /\ n_realizations = nr
    /\ n_realizations_per_division_max = mx
    /\ n_timesteps = nt
    /\ finalized = FALSE
    /\ allocated = FALSE
    /\ generated = FALSE
    /\ code = "none"
    /\ constants = [m \in MemoryNodes |-> 0]
    /\ step_fn_even = NoKernel
    /\ step_fn_odd = NoKernel
    /\ spikes = {}
    /\ buffer = [m \in MemoryNodes |-> 0]
    /\ live = {}
    /\ next_buf = 1
    /\ initializer = FALSE
    /\ reader_weights = 0
    /\ probe_buffer_timepoints = bt
    /\ count = c
    /\ trace = <<>>
    /\ last_op = "init"
    /\ result = "ok"
    /\ pc = "idle"
    /\ division_num = 0
    /\ run_n_divisions = 0
    /\ timestep = 0
    /\ timestep_info = NoArg
    /\ prev_run = <<>>
    /\ capacity = cap
    /\ state_slots = None
    /\ elm = NoElement
    /\ probe_code = "none"
    /\ code_probe = "none"
    /\ probe_lengths = NoLengths

\* The probe is constructed with the default window (0, None, 1).
InitState(nr, mx, nt, bt, c, cap) ==
    /\ InitTree(nr, mx, nt, bt, c, cap)
    /\ exists = ScriptNodes(c)
    /\ probe_window = <<0, None, 1>>
    /\ probe_t_stop = None
    /\ spike_updater = "v_reset"
    /\ no_spike_updater = "v_new"

Init ==
    \E nr \in 0 .. MaxRealizations, mx \in 0 .. MaxRealizations,
       nt \in 1 .. MaxTimesteps :
        InitState(nr, mx, nt, None, DefaultCount, AmpleCapacity)

Next ==
    \/ Configure
    \/ DoFinalize
    \/ DoAllocate
    \/ DoRelease
    \/ DoGenerate
    \/ RunBegin
    \/ DivisionBegin
    \/ Timestep
    \/ DivisionComplete
    \/ RunComplete

Spec == Init /\ [][Next]_vars

\* A script that adds models of any count and generates the step kernel.
InitModels ==
    \E c \in 1 .. MaxCount :
        InitState(1, 1, 1, None, [DefaultCount EXCEPT ![Models[1]] = c],
                  AmpleCapacity)

NextModels ==
    \/ AddModel
    \/ DoFinalize
    \/ DoGenerate

SpecModels == InitModels /\ [][NextModels]_vars

\* A script that gives the probe a buffer length and runs two divisions.
InitProbe ==
    \E nt \in 1 .. MaxProbeTimesteps,
       bt \in {None} \cup (1 .. MaxProbeTimesteps) :
        InitState(2, 1, nt, bt, DefaultCount, AmpleCapacity)

NextProbe ==
    \/ DoFinalize
    \/ DoAllocate
    \/ RunBegin
    \/ DivisionBegin
    \/ Timestep
    \/ DivisionComplete
    \/ RunComplete

SpecProbe == InitProbe /\ [][NextProbe]_vars

\* A script on a device that can hold only a few buffers: allocation may
\* fail with the error of the device.
InitDevice ==
    \E nr \in 1 .. MaxRealizations, nt \in 1 .. MaxTimesteps,
       cap \in 0 .. MaxCapacity :
        InitState(nr, 1, nt, None, DefaultCount, cap)

NextDevice ==
    \/ DoFinalize
    \/ DoGenerate
    \/ DoAllocate
    \/ DoRelease

SpecDevice == InitDevice /\ [][NextDevice]_vars

\* A script that configures the realizations, gives the spiking model a
\* count, may add a second model, and runs, with the work items of the
\* launched kernels.
InitKernel ==
    \E nr \in 1 .. MaxRealizations, mx \in 0 .. MaxRealizations,
       c \in 1 .. MaxCount, c2 \in 0 .. 1 :
        InitState(nr, mx, 1, None,
                  [DefaultCount EXCEPT ![Models[1]] = c,
                                       ![AddedModels[1]] = c2],
                  AmpleCapacity)

NextKernel ==
    \/ Configure
    \/ DoFinalize
    \/ RunBegin
    \/ DivisionBegin
    \/ Timestep
    \/ StepFn
    \/ DivisionComplete
    \/ RunComplete

SpecKernel == InitKernel /\ [][NextKernel]_vars

\* A probe constructed with any window of a positive step.
InitShape ==
    \E start \in 0 .. MaxWindow, stop \in 0 .. 2 * MaxWindow,
       step \in 1 .. MaxWindow :
        /\ start <= stop
        /\ InitTree(1, 1, 1, None, DefaultCount, AmpleCapacity)
        /\ exists = ScriptNodes(DefaultCount)
        /\ probe_window = <<start, stop, step>>
        /\ probe_t_stop = stop
        /\ spike_updater = "v_reset"
        /\ no_spike_updater = "v_new"

NextShape ==
    \/ Shape

SpecShape == InitShape /\ [][NextShape]_vars

\* A script that constructs the probe with a timestep window and a buffer
\* length, finalizes and runs.
InitWindow ==
    \E nt \in 1 .. MaxProbeTimesteps, t_start \in 0 .. MaxWindow - 1,
       t_stop \in {None} \cup (1 .. MaxProbeTimesteps),
       t_step \in 1 .. MaxWindow, bt \in {None} \cup (1 .. MaxWindow - 1) :
        \* the window is not empty backwards: its start is at most its stop
        /\ t_start <= (IF t_stop = None THEN nt ELSE t_stop)
        /\ InitTree(1, 1, nt, bt, DefaultCount, AmpleCapacity)
        /\ exists = ScriptNodes(DefaultCount)
        /\ probe_window = <<t_start, t_stop, t_step>>
        /\ probe_t_stop = t_stop
        /\ spike_updater = "v_reset"
        /\ no_spike_updater = "v_new"

NextWindow ==
    \/ DoFinalize
    \/ RunBegin
    \/ DivisionBegin
    \/ Timestep
    \/ DivisionComplete
    \/ RunComplete

SpecWindow == InitWindow /\ [][NextWindow]_vars

\* A script that adds a sender to the spiking model, pointed at the "out"
\* allocation of the receiver, which that access constructs; it runs two
\* divisions.
InitSpikes ==
    \E nt \in 1 .. MaxTimesteps + 1 :
        /\ InitTree(2, 1, nt, None, DefaultCount, AmpleCapacity)
        /\ exists = ScriptNodes(DefaultCount) \cup {SenderNode, AllocOut}
        /\ probe_window = <<0, None, 1>>
        /\ probe_t_stop = None
        /\ spike_updater = "v_reset"
        /\ no_spike_updater = "v_new"

NextSpikes ==
    \/ DoFinalize
    \/ DoGenerate
    \/ DoAllocate
    \/ RunBegin
    \/ DivisionBegin
    \/ Timestep
    \/ DivisionComplete
    \/ RunComplete

SpecSpikes == InitSpikes /\ [][NextSpikes]_vars

\* A script whose State is constructed with any pair of updaters.
Updaters == {"None", "v_reset", "v_new"}
InitUpdaters ==
    \E c \in 1 .. MaxCount, su \in Updaters, nsu \in Updaters :
        /\ InitTree(1, 1, 1, None, [DefaultCount EXCEPT ![Models[1]] = c],
                    AmpleCapacity)
        /\ exists = ScriptNodes(DefaultCount)
        /\ probe_window = <<0, None, 1>>
        /\ probe_t_stop = None
        /\ spike_updater = su
        /\ no_spike_updater = nsu

NextUpdaters ==
    \/ DoFinalize
    \/ DoGenerate
    \/ DoAllocate

SpecUpdaters == InitUpdaters /\ [][NextUpdaters]_vars

\* ================================================================== claims
\* Positions in a trace at which the root triggers the hook.
TriggersOf(tr, hook) ==
    {i \in 1 .. Len(tr) :
        tr[i].ev = "trigger" /\ tr[i].hook = hook /\ tr[i].node = Root}

\* The three stages of the staged hook are each triggered exactly once by
\* the root, in the order pre, on, post.
StagedOnce(tr, name) ==
    LET pre == TriggersOf(tr, "pre_" \o name)
        on == TriggersOf(tr, "on_" \o name)
        post == TriggersOf(tr, "post_" \o name)
    IN  /\ Cardinality(pre) = 1
        /\ Cardinality(on) = 1
        /\ Cardinality(post) = 1
        /\ \A i \in pre, j \in on, k \in post : i < j /\ j < k

FinalizeHooks == {"pre_finalize", "on_finalize", "post_finalize"}
AllocateHooks == {"pre_allocate", "on_allocate", "post_allocate"}
ReleaseHooks == {"pre_release", "on_release", "post_release"}
EventsOf(tr, hooks) == {i \in 1 .. Len(tr) : tr[i].hook \in hooks}
NoEventOf(tr, hooks) == EventsOf(tr, hooks) = {}

\* C1: once a finalize() call has succeeded, every later finalize() call
\* triggers no hook and changes nothing; the call that succeeds triggers
\* pre_finalize, on_finalize and post_finalize exactly once each.
C1_FinalizeIdempotent ==
    [][last_op' = "finalize" =>
          IF finalized
          THEN /\ trace' = <<>>
               /\ result' = "ok"
               /\ UNCHANGED <<finalized, exists, initializer, reader_weights,
                              probe_t_stop, probe_buffer_timepoints>>
          ELSE finalized' => StagedOnce(trace', "finalize")]_vars

\* a second finalize() call on a finalized simulation has returned
C1_Witness == finalized /\ last_op = "finalize" /\ trace = <<>>

\* C2: a finalize() call on an unfinalized simulation raises Error exactly
\* when n_realizations > 0 and 0 < n_realizations_per_division_max <=
\* n_realizations is violated; then the simulation stays unfinalized and the
\* two values are left as they are; otherwise it becomes finalized.
C2_FinalizeChecksConfiguration ==
    [][(last_op' = "finalize" /\ ~finalized) =>
          LET ok == /\ n_realizations > 0
                    /\ 0 < n_realizations_per_division_max
                    /\ n_realizations_per_division_max <= n_realizations
          IN  /\ (result' = "Error") <=> ~ok
              /\ (result' = "ok") <=> ok
              /\ finalized' <=> ok
              /\ UNCHANGED <<n_realizations,
                             n_realizations_per_division_max>>]_vars

\* finalize() has failed on a division maximum above the realization count
C2_Witness ==
    /\ last_op = "finalize" /\ result = "Error" /\ ~finalized
    /\ n_realizations > 0
    /\ n_realizations_per_division_max > n_realizations

\* C3: allocated implies finalized in every state; an allocate() call on an
\* unfinalized simulation runs the three finalize stages before any allocate
\* stage callback, and if the implied finalize fails no allocate hook runs
\* and allocated stays false.
C3_AllocateFinalizesFirst ==
    /\ [](allocated => finalized)
    /\ [][(last_op' = "allocate" /\ ~finalized) =>
            IF result' = "ok"
            THEN /\ finalized' /\ allocated'
                 /\ StagedOnce(trace', "finalize")
                 /\ StagedOnce(trace', "allocate")
                 /\ \A i \in EventsOf(trace', FinalizeHooks),
                       j \in EventsOf(trace', AllocateHooks) : i < j
            ELSE /\ ~allocated' /\ ~finalized'
                 /\ NoEventOf(trace', AllocateHooks)]_vars

\* allocate() has finalized and allocated in one call
C3_Witness ==
    /\ last_op = "allocate" /\ allocated /\ finalized
    /\ TriggersOf(trace, "post_finalize") # {}
    /\ \E i \in 1 .. Len(trace) :
          trace[i].ev = "callback" /\ trace[i].hook = "on_allocate"

\* C4: while the simulation is allocated an allocate() call triggers no hook
\* and realizes no buffer; the call that allocates triggers the staged
\* allocate hook exactly once.
C4_AllocateIdempotent ==
    [][last_op' = "allocate" =>
          IF allocated
          THEN /\ trace' = <<>>
               /\ result' = "ok"
               /\ UNCHANGED <<allocated, buffer, constants, live, next_buf,
                              exists>>
          ELSE allocated' => StagedOnce(trace', "allocate")]_vars

\* a second allocate() call on an allocated simulation has returned
C4_Witness ==
    /\ allocated /\ last_op = "allocate" /\ trace = <<>>
    /\ \E m \in MemoryNodes : buffer[m] # 0

\* C5: release() on a simulation that is not allocated raises Error, runs no
\* callback and leaves the lifecycle flags and the constants mapping as they
\* are.
C5_ReleaseRequiresAllocated ==
    [][(last_op' = "release" /\ ~allocated) =>
          /\ result' = "Error"
          /\ trace' = <<>>
          /\ UNCHANGED <<finalized, allocated, generated, constants>>]_vars

\* release() has failed on a simulation that was released before
C5_Witness ==
    /\ last_op = "release" /\ result = "Error" /\ ~allocated
    /\ finalized
    /\ \E m \in MemoryNodes : constants[m] # 0

\* C6: a release() on an allocated simulation triggers the staged release
\* hook once, clears allocated and keeps finalized and generated; an
\* allocate() on a finalized, not allocated simulation triggers the staged
\* allocate hook once, without any finalize hook, and sets allocated; both
\* hold however many cycles went before.
C6_AllocateReleaseCycle ==
    [][/\ (last_op' = "release" /\ allocated) =>
             /\ result' = "ok"
             /\ ~allocated'
             /\ UNCHANGED <<finalized, generated>>
             /\ StagedOnce(trace', "release")
       /\ (last_op' = "allocate" /\ finalized /\ ~allocated) =>
             /\ result' = "ok"
             /\ allocated'
             /\ UNCHANGED <<finalized, generated>>
             /\ StagedOnce(trace', "allocate")
             /\ NoEventOf(trace', FinalizeHooks)]_vars

\* allocate() has succeeded again after a release(): the buffers realized in
\* the first cycle have been released
C6_Witness ==
    /\ last_op = "allocate" /\ allocated
    /\ StagedOnce(trace, "allocate")
    /\ NoEventOf(trace, FinalizeHooks)
    /\ live = {}
    /\ \E m \in MemoryNodes : buffer[m] # 0

\* The events of the division loop in a trace: the kernel launches and the
\* root's triggers of the three division hooks.
DivisionHooks ==
    {"on_initialize_memory", "on_timestep_complete", "on_division_complete"}
IsDivisionEvent(e) ==
    \/ e.ev = "launch"
    \/ e.ev = "trigger" /\ e.node = Root /\ e.hook \in DivisionHooks
DivisionEvents(tr) == SelectSeq(tr, IsDivisionEvent)

\* What the i-th event of the division loop has to be when every division
\* has nt timesteps: per division 2 + 2 * nt events.
ExpectedDivisionEvent(i, nt) ==
    LET per == 2 + 2 * nt
        d == (i - 1) \div per
        r == (i - 1) % per
    IN  IF r = 0
        THEN [kind |-> "on_initialize_memory", div |-> d, t |-> 0]
        ELSE IF r = per - 1
        THEN [kind |-> "on_division_complete", div |-> d,
              t |-> IF nt = 0 THEN 0 ELSE nt - 1]
        ELSE IF (r - 1) % 2 = 0
        THEN [kind |-> "launch", div |-> None, t |-> (r - 1) \div 2]
        ELSE [kind |-> "on_timestep_complete", div |-> d,
              t |-> (r - 1) \div 2]
DivisionEventSeen(e) ==
    [kind |-> IF e.ev = "launch" THEN "launch" ELSE e.hook,
     div |-> e.div, t |-> e.t]

\* C7: in run() the division loop produces, for d = 0 .. n_divisions - 1 in
\* order: on_initialize_memory once, then for t = 0 .. n_timesteps - 1 in
\* order a kernel launch immediately followed by on_timestep_complete with
\* the same t, then on_division_complete once; a run that returns has
\* produced all of them.
C7_DivisionEventOrder ==
    last_op = "run" =>
        LET seen == DivisionEvents(trace)
        IN  /\ Len(seen) <= run_n_divisions * (2 + 2 * n_timesteps)
            /\ \A i \in 1 .. Len(seen) :
                  DivisionEventSeen(seen[i])
                      = ExpectedDivisionEvent(i, n_timesteps)
            /\ (pc = "idle" /\ result = "ok") =>
                  Len(seen) = run_n_divisions * (2 + 2 * n_timesteps)
            /\ \A i \in 1 .. Len(trace) :
                  trace[i].ev = "launch" =>
                      /\ i < Len(trace)
                      /\ trace[i + 1].ev = "trigger"
                      /\ trace[i + 1].hook = "on_timestep_complete"
                      /\ trace[i + 1].t = trace[i].t

\* a run of at least two divisions of two timesteps has returned
C7_Witness ==
    /\ last_op = "run" /\ pc = "idle" /\ result = "ok"
    /\ run_n_divisions >= 2 /\ n_timesteps >= 2
    /\ Len(DivisionEvents(trace)) >= 12

\* C8: in a run() call prepare_run is triggered exactly once and before
\* every event of the division loop; on_run_complete is triggered at most
\* once, exactly once in a run that returns, directly after the queue has
\* been flushed, after every event of the division loop, and no launch or
\* division hook follows it.
C8_RunPrologueAndEpilogue ==
    last_op = "run" =>
        LET first == TriggersOf(trace, "prepare_run")
            last == TriggersOf(trace, "on_run_complete")
            loop == {i \in 1 .. Len(trace) : IsDivisionEvent(trace[i])}
            flush == {i \in 1 .. Len(trace) : trace[i].ev = "queue_finish"}
        IN  /\ Cardinality(first) = 1
            /\ \A i \in first, j \in loop \cup flush \cup last : i < j
            /\ Cardinality(last) <= 1
            /\ Cardinality(flush) = Cardinality(last)
            /\ (pc = "idle" /\ result = "ok") <=> Cardinality(last) = 1
            /\ \A k \in last :
                  /\ k - 1 \in flush
                  /\ \A j \in loop : j < k - 1
                  /\ run_n_divisions > 0 =>
                        \E j \in loop :
                            /\ trace[j].hook = "on_division_complete"
                            /\ trace[j].div = run_n_divisions - 1
                            /\ \A i \in loop : i <= j

\* a run with at least one division has returned
C8_Witness ==
    /\ last_op = "run" /\ pc = "idle" /\ result = "ok"
    /\ run_n_divisions >= 1
    /\ TriggersOf(trace, "on_run_complete") # {}

\* C9: every kernel launch of a run calls the even step function at an even
\* timestep and the odd one at an odd timestep, with the arguments
\* (timestep, realization_start) of the division's TimestepInfo, where
\* realization_start = division_num * n_realizations_per_division_max.
C9_KernelParity ==
    last_op = "run" =>
        \A i \in 1 .. Len(trace) :
            trace[i].ev = "launch" =>
                LET info == trace[i + 1]
                IN  /\ trace[i].hook = IF trace[i].t % 2 = 0
                                       THEN "step_fn_even" ELSE "step_fn_odd"
                    /\ trace[i].t = info.t
                    /\ trace[i].rs = info.rs
                    /\ trace[i].rs = info.div * n_realizations_per_division_max

\* the odd step function has been launched in a division after the first
C9_Witness ==
    /\ last_op = "run"
    /\ \E i \in 1 .. Len(trace) :
          /\ trace[i].ev = "launch" /\ trace[i].hook = "step_fn_odd"
          /\ trace[i].t = 1 /\ trace[i].rs > 0

\* The number of realizations of the division that starts at realization rs.
RealizationsInDivision(rs) ==
    IF n_realizations - rs < n_realizations_per_division_max
    THEN n_realizations - rs ELSE n_realizations_per_division_max

\* C10: the TimestepInfo of every division of a run carries n_realizations =
\* min(n_realizations_per_division_max, n_realizations - realization_start).
C10_DivisionRealizationCount ==
    (last_op = "run" /\ finalized) =>
        \A i \in 1 .. Len(trace) :
            IsDivisionEvent(trace[i]) /\ trace[i].ev = "trigger" =>
                trace[i].nr = RealizationsInDivision(trace[i].rs)

\* ceil(n / d) for n >= 0 and d > 0: the least k with k * d >= n.
CeilDiv(n, d) ==
    CHOOSE k \in 0 .. n : k * d >= n /\ \A j \in 0 .. k - 1 : j * d < n

\* C11: for every finalized configuration n_divisions is
\* ceil(n_realizations / n_realizations_per_division_max); a run() of a
\* finalized simulation iterates exactly that many divisions, numbered
\* 0 .. n_divisions - 1, and has completed all of them when it returns.
C11_NDivisionsIsCeil ==
    finalized =>
        LET k == CeilDiv(n_realizations, n_realizations_per_division_max)
            begun == {trace[i].div : i \in TriggersOf(trace,
                                                     "on_initialize_memory")}
            done == {trace[i].div : i \in TriggersOf(trace,
                                                    "on_division_complete")}
        IN  /\ IntDivRoundUp(n_realizations,
                             n_realizations_per_division_max) = k
            /\ last_op = "run" =>
                  /\ run_n_divisions = k
                  /\ begun \subseteq 0 .. k - 1
                  /\ Cardinality(TriggersOf(trace, "on_initialize_memory"))
                         = Cardinality(begun)
                  /\ Cardinality(TriggersOf(trace, "on_division_complete"))
                         = Cardinality(done)
                  /\ pc = "idle" => begun = 0 .. k - 1 /\ done = 0 .. k - 1

\* a finalized run of three realizations, at most two per division, has
\* returned after two divisions
C11_Witness ==
    /\ finalized /\ last_op = "run" /\ pc = "idle" /\ result = "ok"
    /\ n_realizations = 3 /\ n_realizations_per_division_max = 2
    /\ Cardinality(TriggersOf(trace, "on_division_complete")) = 2

Regions(tr) == SelectSeq(tr, LAMBDA e : e.ev = "region")
RegionPositions(tr) == {i \in 1 .. Len(tr) : tr[i].ev = "region"}
ModelCodeHooks ==
    {"pre_model_idx_calculations", "in_model_idx_calculations",
     "post_model_idx_calculations", "pre_model_cl_code", "in_model_cl_code",
     "post_model_cl_code"}

\* C13: a generate() call constructs the partitioner over
\* [0, n_elms_per_realization) and passes it one region per model in
\* insertion order, region i being [offset_i, offset_i + count_i) where
\* offset_i is the sum of the counts of the models before it; the code of a
\* region is the step-kernel code of its own model; consecutive regions
\* are contiguous, the first starts at 0, the last ends at
\* n_elms_per_realization, and every index of the outer range lies in
\* exactly one region.
C13_PartitionerRegions ==
    (last_op = "generate" /\ result = "ok") =>
        LET ms == ModelsIn(Heap)
            regs == Regions(trace)
            k == Len(ms)
            total == SumCounts(ms, Heap)
            outer == {i \in 1 .. Len(trace) : trace[i].ev = "partitioner"}
        IN  /\ Cardinality(outer) = 1
            /\ \A i \in outer :
                  /\ trace[i].start = 0 /\ trace[i].stop = total
                  /\ \A j \in RegionPositions(trace) : i < j
            /\ Len(regs) = k
            /\ \A i \in 1 .. k :
                  /\ regs[i].node = ms[i]
                  /\ regs[i].start = SumCounts(SubSeq(ms, 1, i - 1), Heap)
                  /\ regs[i].stop = regs[i].start + count[ms[i]]
            /\ k > 0 => regs[1].start = 0 /\ regs[k].stop = total
            /\ \A i \in 1 .. k - 1 : regs[i].stop = regs[i + 1].start
            /\ \A x \in 0 .. total - 1 :
                  Cardinality({i \in 1 .. k :
                      regs[i].start <= x /\ x < regs[i].stop}) = 1
            /\ \A p \in RegionPositions(trace) :
                  LET later == {q \in RegionPositions(trace) : q > p}
                      end == IF later = {} THEN Len(trace) + 1
                             ELSE CHOOSE q \in later :
                                      \A r \in later : q <= r
                      own == {j \in p + 1 .. end - 1 :
                                 /\ trace[j].ev = "trigger"
                                 /\ trace[j].hook \in ModelCodeHooks}
                  IN  /\ \A j \in own : trace[j].node = trace[p].node
                      /\ \A hk \in ModelCodeHooks :
                            Cardinality({j \in own : trace[j].hook = hk}) = 1

\* the step kernel has been generated for three models: the regions are
\* [0, 2), [2, 5) and a third one from 5
C13_Witness ==
    /\ last_op = "generate" /\ result = "ok"
    /\ Len(Regions(trace)) = 3
    /\ Regions(trace)[2].start = 2
    /\ Regions(trace)[3].start = 5

\* Positions in a trace at which the probe triggers on_buffer_full.
BufferFull(tr) ==
    {i \in 1 .. Len(tr) :
        /\ tr[i].ev = "trigger"
        /\ tr[i].hook = "on_buffer_full"
        /\ tr[i].node = ProbeNode}

\* Positions in a trace at which the probe's on_timestep_complete is called.
ProbeTimesteps(tr) ==
    {i \in 1 .. Len(tr) :
        /\ tr[i].ev = "callback"
        /\ tr[i].hook = "on_timestep_complete"
        /\ tr[i].node = ProbeNode}

\* C14: a finalized PerElementProbe with the default timestep window has a
\* buffer length B that divides n_timesteps N; in run() the probe triggers
\* on_buffer_full from its on_timestep_complete callback of timestep t
\* exactly when t + 1 is a multiple of B, with t + 1 as the elapsed count;
\* so a completed division has N / B triggers, at the elapsed counts
\* B, 2B, ..., N.
C14_BufferFullSchedule ==
    (finalized /\ last_op = "run") =>
        LET B == probe_buffer_timepoints
            N == n_timesteps
            full == BufferFull(trace)
            multiples == {k * B : k \in 1 .. N \div B}
        IN  /\ B > 0 /\ N % B = 0
            /\ probe_t_stop = N
            /\ \A i \in full :
                  /\ i - 1 \in ProbeTimesteps(trace)
                  /\ trace[i - 1].div = trace[i].div
                  /\ trace[i - 1].t = trace[i].t
                  /\ trace[i].elapsed = trace[i].t + 1
                  /\ trace[i].elapsed \in multiples
            /\ \A i \in ProbeTimesteps(trace) :
                  (trace[i].t + 1) \in multiples =>
                      i + 1 \in full
            /\ \A j \in TriggersOf(trace, "on_division_complete") :
                  LET mine == {i \in full : trace[i].div = trace[j].div}
                  IN  /\ Cardinality(mine) = N \div B
                      /\ {trace[i].elapsed : i \in mine} = multiples
                      /\ \A i \in mine : i < j

\* a run of two divisions of four timesteps has returned; the probe buffers
\* two timepoints and has reported a full buffer twice per division
C14_Witness ==
    /\ finalized /\ last_op = "run" /\ pc = "idle" /\ result = "ok"
    /\ n_timesteps = 4 /\ probe_buffer_timepoints = 2
    /\ Cardinality(BufferFull(trace)) = 4

\* The events of a run() from the trigger of prepare_run on.
RunSection(tr) ==
    LET starts == TriggersOf(tr, "prepare_run")
    IN  IF starts = {} THEN <<>>
        ELSE SubSeq(tr, CHOOSE i \in starts : \A j \in starts : i <= j,
                    Len(tr))

\* C15: when run() is called on an allocated simulation right after a run()
\* that has returned, the events from prepare_run on (hook, node, division
\* number, realization_start, timestep and step function of every event)
\* repeat those of the run before: at every step they are a prefix of them,
\* and all of them when the run returns.
C15_RunsRepeat ==
    (last_op = "run" /\ allocated /\ prev_run # <<>>) =>
        LET now == RunSection(trace)
            before == RunSection(prev_run)
        IN  /\ Len(now) <= Len(before)
            /\ now = SubSeq(before, 1, Len(now))
            /\ (pc = "idle" /\ result = "ok") => now = before

\* the second of two consecutive runs of two divisions on an allocated
\* simulation has returned
C15_Witness ==
    /\ last_op = "run" /\ allocated /\ pc = "idle" /\ result = "ok"
    /\ prev_run # <<>>
    /\ run_n_divisions = 2
    /\ Len(RunSection(trace)) > 2

\* The three stages of the staged code generation hook are each triggered
\* exactly once by the root, in the order pre, in, post.
StagedCgOnce(tr, name) ==
    LET pre == TriggersOf(tr, "pre_" \o name)
        in == TriggersOf(tr, "in_" \o name)
        post == TriggersOf(tr, "post_" \o name)
    IN  /\ Cardinality(pre) = 1
        /\ Cardinality(in) = 1
        /\ Cardinality(post) = 1
        /\ \A i \in pre, j \in in, k \in post : i < j /\ j < k

\* C16: every generate() call, whether or not code has been generated
\* before and whether or not the simulation is allocated, triggers the three
\* stages of step_kernel exactly once each, starting from an empty code
\* buffer, stores the generated code in sim.code, sets generated and leaves
\* allocated as it is.
C16_GenerateEveryCall ==
    [][last_op' = "generate" =>
          /\ result' = "ok"
          /\ StagedCgOnce(trace', "step_kernel")
          /\ trace'[1].ev = "trigger" /\ trace'[1].hook = "pre_step_kernel"
          /\ generated'
          /\ code' = "step_fn"
          /\ UNCHANGED allocated]_vars

\* generate() has been called on an allocated simulation whose step
\* functions had been compiled from earlier generated code
C16_Witness ==
    /\ last_op = "generate" /\ allocated /\ generated
    /\ step_fn_even.compiled
    /\ StagedCgOnce(trace, "step_kernel")

\* C17: generate() on an unfinalized simulation calls finalize() first, so
\* in every reachable state generated implies finalized.
C17_GeneratedImpliesFinalized == generated => finalized

\* C18: a MemoryNode is realized into a device buffer at most once: a step
\* invokes the device allocation function once for every node it realizes
\* and never for a node that is realized already, whose buffer stays the
\* one every access returns; the buffers of different nodes are different.
C18_RealizedAtMostOnce ==
    [][/\ \A m \in MemoryNodes : buffer[m] # 0 => buffer'[m] = buffer[m]
       /\ next_buf' - next_buf =
              Cardinality({m \in MemoryNodes :
                              buffer[m] = 0 /\ buffer'[m] # 0})
       /\ \A m1, m2 \in MemoryNodes :
              (m1 # m2 /\ buffer'[m1] # 0) => buffer'[m1] # buffer'[m2]]_vars

\* a run() on an allocated simulation has returned: the four memory nodes
\* have been accessed by the allocate hooks, the buffer-swap hook and the
\* run-time hooks, and four device buffers have been allocated
C18_Witness ==
    /\ last_op = "run" /\ pc = "idle" /\ result = "ok" /\ allocated
    /\ \A m \in MemoryNodes : buffer[m] # 0
    /\ next_buf = Cardinality(MemoryNodes) + 1

\* C19: release() makes every MemoryNode unrealized again: the allocate()
\* that follows a release() realizes each MemoryNode anew, so the node has a
\* new device buffer and the constants entry of its name denotes a buffer
\* that has not been released.
C19_ReleaseUnrealizes ==
    [][(last_op = "release" /\ result = "ok"
            /\ last_op' = "allocate" /\ result' = "ok") =>
          \A m \in MemoryNodes :
              buffer[m] # 0 =>
                  /\ buffer'[m] # buffer[m]
                  /\ constants'[m] \in live']_vars

Launches(tr) == {i \in 1 .. Len(tr) : tr[i].ev = "launch"}

\* Every buffer a compiled step function is bound to is live.
BoundToLive(fn) ==
    \A m \in MemoryNodes : fn.bindings[m] # 0 => fn.bindings[m] \in live

\* C21: release() resets the compiled kernels, so the run() after it
\* compiles them against the current constants: no run() launches a kernel
\* that is bound to a released buffer.
C21_NoLaunchOnReleasedBuffer ==
    last_op = "run" =>
        \A i \in Launches(trace) :
            IF trace[i].hook = "step_fn_even"
            THEN BoundToLive(step_fn_even)
            ELSE BoundToLive(step_fn_odd)

\* C22: once the even kernel, the first to be compiled, has been compiled
\* no operation adds, removes or rebinds an entry of constants: constants
\* stays what that kernel was compiled against.
C22_ConstantsFrozenAfterCompile ==
    step_fn_even.compiled => constants = step_fn_even.bindings

\* C23: a run() on an allocated simulation that compiles the kernels
\* compiles the even kernel against bindings in which the receiver's "in"
\* and "out" denote its own in and out buffers, and the odd kernel against
\* bindings in which the two are exchanged.
C23_DoubleBufferBindings ==
    (/\ last_op = "run" /\ allocated
     /\ TriggersOf(trace, "on_prepare_step_fn_even") # {}
     /\ step_fn_even.compiled /\ step_fn_odd.compiled) =>
        /\ buffer[AllocIn] # 0 /\ buffer[AllocOut] # 0
        /\ step_fn_even.bindings[AllocIn] = buffer[AllocIn]
        /\ step_fn_even.bindings[AllocOut] = buffer[AllocOut]
        /\ step_fn_odd.bindings[AllocIn] = buffer[AllocOut]
        /\ step_fn_odd.bindings[AllocOut] = buffer[AllocIn]

\* The nodes whose callback of the hook was invoked, in invocation order.
CallbacksOf(tr, hook) ==
    LET es == SelectSeq(tr, LAMBDA e : e.ev = "callback" /\ e.hook = hook)
    IN  [i \in 1 .. Len(es) |-> es[i].node]
\* The existing nodes that define the hook, in depth-first pre-order.
DefinersOf(hook) ==
    SelectSeq(Traversal[Root],
              LAMBDA n : n \in exists /\ hook \in Defines(Kind[n]))
\* Every callback of the first hook is invoked before every callback of the
\* second and before the traversal of the second is started.
StageBefore(tr, first, second) ==
    \A i, j \in 1 .. Len(tr) :
        (tr[i].ev = "callback" /\ tr[i].hook = first /\ tr[j].hook = second)
            => i < j
StagedTraversals(tr, name) ==
    /\ \A s \in {"pre_" \o name, "on_" \o name, "post_" \o name} :
           CallbacksOf(tr, s) = DefinersOf(s)
    /\ StageBefore(tr, "pre_" \o name, "on_" \o name)
    /\ StageBefore(tr, "on_" \o name, "post_" \o name)
    /\ StageBefore(tr, "pre_" \o name, "post_" \o name)

\* C24: a staged hook is three full traversals in the order pre, on, post:
\* in every finalize(), allocate() or release() call that triggers its staged
\* hook and succeeds, each stage invokes the callback of exactly the existing
\* nodes that define it, in depth-first pre-order (a node without the
\* callback is skipped, its descendants are still visited), and every
\* callback of a stage is invoked before the next stage begins.
C24_StagedHookTraversals ==
    (result = "ok" /\ trace # <<>>) =>
        /\ last_op = "finalize" => StagedTraversals(trace, "finalize")
        /\ last_op = "allocate" /\ TriggersOf(trace, "pre_finalize") # {}
               => StagedTraversals(trace, "finalize")
        /\ last_op = "allocate" /\ TriggersOf(trace, "pre_allocate") # {}
               => StagedTraversals(trace, "allocate")
        /\ last_op = "release" => StagedTraversals(trace, "release")
\* finalize() has invoked pre_finalize on the State and the receiver, then
\* on_finalize on the initializer and the probe (below nodes that do not
\* define on_finalize), then post_finalize on the root.
C24_Witness ==
    /\ last_op = "finalize" /\ result = "ok"
    /\ CallbacksOf(trace, "pre_finalize") = <<3, 6>>
    /\ CallbacksOf(trace, "on_finalize") = <<4, 9>>
    /\ CallbacksOf(trace, "post_finalize") = <<1>>
    /\ "on_finalize" \notin Defines(Kind[Parent[4]])

\* C25: when allocate() has failed midway with the error of the device,
\* leaving buffers realized, the release() that follows is accepted and
\* releases the buffers realized so far.
C25_ReleaseAfterFailedAllocate ==
    [][(/\ last_op = "allocate" /\ result = "MemoryError" /\ live # {}
        /\ last_op' = "release")
          => (result' = "ok" /\ live' = {})]_vars

\* Simulation.idx_ranges and Model.idx_ranges: the half-open range advertised
\* for each index.
IdxRanges(name, m) ==
    CASE name = "idx_sim" ->
            [start |-> 0, stop |-> NElmsPerRealization(Heap) * n_realizations]
      [] name = "idx_realization" ->
            [start |-> 0, stop |-> NElmsPerRealization(Heap)]
      [] name = "idx_division" ->
            [start |-> 0, stop |-> NElmsPerRealization(Heap)]
      [] name = "idx_model" -> [start |-> 0, stop |-> count[m]]
InRange(x, r) == r.start <= x /\ x < r.stop

\* C26: every index the kernel of a finalized simulation computes for a
\* visited element lies in the range idx_ranges advertises for it: idx_sim,
\* idx_realization, idx_division, and idx_model within the region of a model.
C26_IndicesInAdvertisedRanges ==
    (finalized /\ elm # NoElement) =>
        /\ InRange(elm.idx_sim, IdxRanges("idx_sim", elm.model))
        /\ InRange(elm.idx_realization,
                   IdxRanges("idx_realization", elm.model))
        /\ InRange(elm.idx_division, IdxRanges("idx_division", elm.model))
        /\ elm.model # None
        /\ InRange(elm.idx_model, IdxRanges("idx_model", elm.model))

\* The elements the work items of a launch of the division visit together.
DivisionElements(realization_start) ==
    {LoopBody(i, realization_start, Heap) :
         i \in FirstIdxSim(realization_start, Heap)
                 .. LastIdxSim(realization_start, Heap) - 1}

\* C27: in a finalized simulation the State buffer has
\* count * n_realizations_per_division_max slots, and for every element of a
\* spiking model processed in a division idx_state lies inside the buffer
\* and differs from the idx_state of every other element of the model in
\* that division.
C27_StateSlots ==
    (finalized /\ elm # NoElement /\ elm.idx_state # None) =>
        /\ state_slots = count[elm.model] * n_realizations_per_division_max
        /\ 0 <= elm.idx_state /\ elm.idx_state < state_slots
        /\ \A e \in DivisionElements(elm.realization_start) :
               (e.model = elm.model /\ e.idx_state = elm.idx_state)
                   => e.idx_sim = elm.idx_sim

\* The launches of a trace whose kernel writes the timepoint slot s of the
\* probe buffer.
Writes(tr, s) ==
    {i \in 1 .. Len(tr) : tr[i].ev = "launch" /\ tr[i].slot = s}
ProbeSlots(tr) ==
    {tr[i].slot : i \in {j \in 1 .. Len(tr) : tr[j].ev = "launch"}} \ {None}

\* C28: in a run() of a finalized simulation, between any two launches that
\* write the same timepoint slot of the probe buffer, in one division or in
\* consecutive ones, the probe triggers on_buffer_full, after the
\* on_timestep_complete of the first launch has been triggered and before
\* the second launch.
C28_ProbeSlotOfferedBeforeOverwrite ==
    (finalized /\ last_op = "run") =>
        \A s \in ProbeSlots(trace) :
            \A i, j \in Writes(trace, s) :
                i < j =>
                    \E k \in BufferFull(trace) :
                        /\ i < k /\ k < j
                        /\ \E c \in TriggersOf(trace, "on_timestep_complete") :
                               /\ i < c /\ c < k
                               /\ trace[c].t = trace[i].t
                               /\ trace[c].rs = trace[i].rs
\* a run of two divisions of four timesteps with a buffer of two timepoints
\* has returned: slot 0 was written twice in each division
C28_Witness ==
    /\ finalized /\ last_op = "run" /\ pc = "idle" /\ result = "ok"
    /\ n_timesteps = 4 /\ probe_buffer_timepoints = 2
    /\ Cardinality(Writes(trace, 0)) = 4
    /\ Cardinality(Writes(trace, 1)) = 4
    /\ ProbeSlots(trace) = {0, 1}

\* The three stage triggers of a staged code generation hook on node n, with
\* the triggers nested in its in_ stage between them.
Nested(name, n, inner) ==
    <<[hook |-> "pre_" \o name, node |-> n],
      [hook |-> "in_" \o name, node |-> n]>>
    \o inner \o <<[hook |-> "post_" \o name, node |-> n]>>
RECURSIVE PerModel(_)
PerModel(ms) ==
    IF ms = <<>> THEN <<>>
    ELSE Nested("model_idx_calculations", Head(ms), <<>>)
         \o Nested("model_cl_code", Head(ms), <<>>)
         \o PerModel(Tail(ms))
StepKernelNesting(ms) ==
    Nested("step_kernel", Root,
        Nested("step_kernel_body", Root,
            Nested("thread_idx_calculations", Root, <<>>)
            \o Nested("main_loop", Root,
                   Nested("loop_body", Root,
                       Nested("element_idx_calculations", Root, <<>>)
                       \o PerModel(ms)))))
NestingHooks ==
    {StepKernelNesting(<<Root>>)[i].hook :
         i \in 1 .. Len(StepKernelNesting(<<Root>>))}
\* The triggers of these hooks in a trace, in the order they were made.
NestingOf(tr) ==
    LET es == SelectSeq(tr, LAMBDA e : e.ev = "trigger"
                                       /\ e.hook \in NestingHooks)
    IN  [i \in 1 .. Len(es) |-> [hook |-> es[i].hook, node |-> es[i].node]]

\* C29: each generate() call triggers the code generation hooks nested as
\* step_kernel, step_kernel_body, thread_idx_calculations then main_loop,
\* loop_body, element_idx_calculations then, per model in insertion order,
\* model_idx_calculations followed by model_cl_code, every one as pre_, in_,
\* post_; the hooks of a model are triggered on that model, so each model's
\* in_model_idx_calculations callback runs once, for its own region.
C29_CodeGenerationNesting ==
    (last_op = "generate" /\ result = "ok") =>
        /\ NestingOf(trace) = StepKernelNesting(ModelsIn(Heap))
        /\ CallbacksOf(trace, "in_model_idx_calculations") = ModelsIn(Heap)
\* generate() has returned for a simulation of three models
C29_Witness ==
    /\ last_op = "generate" /\ result = "ok"
    /\ ModelsIn(Heap) = <<2, 12, 13>>
    /\ Len(NestingOf(trace)) = 36

\* C30: for every index window (idx_start, idx_stop, idx_step) with a step
\* of at least 1, n_elms is (idx_stop - idx_start) / idx_step rounded down,
\* and total_n_timesteps is (t_stop - t_start) / t_step rounded down.
C30_WindowLengths ==
    probe_lengths # NoLengths =>
        /\ probe_lengths.total_n_timesteps =
               (probe_window[2] - probe_window[1]) \div probe_window[3]
        /\ probe_lengths.n_elms =
               (probe_window[2] - probe_window[1]) \div probe_window[3]

\* C31: in a run() of a finalized simulation whose probe has any window
\* (t_start, t_stop, t_step), the probe triggers on_buffer_full only at a
\* timestep of the window (t_start <= timestep < t_stop, on the stride),
\* with an elapsed count that is a positive multiple of buffer_timepoints,
\* and never twice with the same elapsed count in one division.
C31_BufferFullOnWindowTimesteps ==
    (finalized /\ last_op = "run") =>
        \A i \in BufferFull(trace) :
            /\ probe_window[1] <= trace[i].t
            /\ trace[i].t < probe_t_stop
            /\ (trace[i].t - probe_window[1]) % probe_window[3] = 0
            /\ trace[i].elapsed > 0
            /\ trace[i].elapsed % probe_buffer_timepoints = 0
            /\ \A j \in BufferFull(trace) :
                   (j # i /\ trace[j].rs = trace[i].rs) =>
                       trace[j].elapsed # trace[i].elapsed

\* The launches of the division started at realization rs whose probe
\* statement is admitted by its guards.
AdmittedLaunches(tr, rs) ==
    {i \in Launches(tr) : tr[i].rs = rs /\ tr[i].slot # None}

\* C32: for every window (t_start, t_stop, t_step) within the run of a
\* finalized probe that buffers the whole window, the launches of a
\* completed division whose timestep the emitted guards admit number
\* total_n_timesteps, and their timepoint indices (timestep - t_start) /
\* t_step are exactly 0 .. total_n_timesteps - 1, one launch each, so none
\* is past the timepoint dimension of the probe buffer.
C32_AdmittedTimestepsFillBuffer ==
    (/\ finalized /\ last_op = "run"
     /\ probe_t_stop <= n_timesteps
     /\ step_fn_even.probe = "timestep_expr"
     /\ step_fn_odd.probe = "timestep_expr") =>
        \A j \in TriggersOf(trace, "on_division_complete") :
            LET mine == AdmittedLaunches(trace, trace[j].rs)
                total == TotalNTimesteps(<<probe_window[1], probe_t_stop,
                                           probe_window[3]>>)
            IN  /\ Cardinality(mine) = total
                /\ {trace[i].slot : i \in mine} = 0 .. total - 1

\* The copies AccumulateOnHost has made into its host buffer.
Copies(tr) == {i \in 1 .. Len(tr) : tr[i].ev = "memcpy"}
\* The (timepoint, realization) cells of the host buffer a copy writes.
CopyCells(e) == (e.start .. e.stop - 1) \X (e.rs .. e.division_end - 1)

LaunchedFn(e) ==
    IF e.hook = "step_fn_even" THEN step_fn_even ELSE step_fn_odd

\* C34: in a run() of a simulation whose sender targets the receiver's "out"
\* allocation, every launch reads and clears a device buffer different from
\* the one its senders add into; the launch of timestep t reads exactly the
\* spikes sent at timestep t - 1 of the same division (none at timestep 0);
\* and when a division starts, both buffers of the receiver hold no spike.
C34_SpikePingPong ==
    (last_op = "run" /\ SenderNode \in exists) =>
        /\ \A i \in Launches(trace) :
              /\ LaunchedFn(trace[i]).bindings[AllocIn] # 0
              /\ LaunchedFn(trace[i]).bindings[AllocOut] # 0
              /\ LaunchedFn(trace[i]).bindings[AllocIn]
                     # LaunchedFn(trace[i]).bindings[AllocOut]
              /\ trace[i].read =
                     IF trace[i].t = 0 THEN {} ELSE {trace[i].t - 1}
        /\ (pc = "timestep" /\ timestep = 0) =>
              \A s \in spikes :
                  s[1] \notin {buffer[AllocIn], buffer[AllocOut]}

\* The global element indices of the division that starts at realization rs.
DivisionRange(rs) == FirstIdxSim(rs, Heap) .. LastIdxSim(rs, Heap) - 1

\* C35: every global element index is processed exactly once per timestep:
\* in a launch, for any number of work items from 1 on, every idx_sim of the
\* division's range is visited by exactly one work item of the strided loop
\* and no work item leaves the range; and when a run() has returned, the
\* ranges of its divisions are pairwise disjoint and together are
\* 0 .. n_elms_per_sim - 1.
C35_EveryElementOncePerTimestep ==
    /\ pc = "timestep" =>
          \A gsize \in 1 .. MaxWorkItems :
              /\ \A idx_sim \in DivisionRange(timestep_info.rs) :
                    Cardinality({gid \in 0 .. gsize - 1 :
                        idx_sim \in MainLoop(gid, gsize, timestep_info.rs,
                                             Heap)}) = 1
              /\ \A gid \in 0 .. gsize - 1 :
                    MainLoop(gid, gsize, timestep_info.rs, Heap)
                        \subseteq DivisionRange(timestep_info.rs)
    /\ (last_op = "run" /\ pc = "idle" /\ result = "ok") =>
          LET divisions == TriggersOf(trace, "on_initialize_memory")
          IN  /\ \A i, j \in divisions :
                    i # j => DivisionRange(trace[i].rs)
                                 \cap DivisionRange(trace[j].rs) = {}
              /\ UNION {DivisionRange(trace[i].rs) : i \in divisions}
                     = 0 .. NElmsPerRealization(Heap) * n_realizations - 1

\* a work item of two has processed an element of the second of three
\* divisions of a simulation with four elements per realization
C35_Witness ==
    /\ pc = "timestep" /\ elm # NoElement /\ finalized
    /\ n_realizations = 3 /\ n_realizations_per_division_max = 1
    /\ NElmsPerRealization(Heap) = 4
    /\ timestep_info.rs = 1 /\ elm.idx_sim = 5

\* The calls of the State's initializer in a trace.
InitializerCalls(tr) == {i \in 1 .. Len(tr) : tr[i].ev = "initializer"}

\* C36: in a run() of a finalized simulation whose State has an initializer,
\* every division invokes the initializer exactly once, after the division's
\* on_initialize_memory trigger and before its first launch, with the
\* element count (realizations of the division) * model.count, which is at
\* most the size model.count * n_realizations_per_division_max of the
\* State's buffer.
C36_InitializerCountPerDivision ==
    (finalized /\ initializer /\ last_op = "run") =>
        \A i \in TriggersOf(trace, "on_initialize_memory") :
            LET mine == {k \in InitializerCalls(trace) :
                             trace[k].div = trace[i].div}
            IN  /\ Cardinality(mine) = 1
                /\ \A k \in mine :
                      /\ i < k
                      /\ \A l \in Launches(trace) :
                            (trace[l].rs = trace[i].rs /\ i < l) => k < l
                      /\ trace[k].count =
                             RealizationsInDivision(trace[i].rs)
                                 * count[Parent[trace[k].node]]
                      /\ trace[k].count <=
                             count[Parent[trace[k].node]]
                                 * n_realizations_per_division_max

\* The update statements a generate() has emitted in the code of a hook.
Emitted(tr, hook) ==
    {i \in 1 .. Len(tr) : tr[i].ev = "emit" /\ tr[i].hook = hook}

\* C37: a generate() emits the State's update in exactly one place per
\* execution path: in independent_state_updates if and only if the two
\* updaters are equal, otherwise the spike updater only in the spike branch
\* and the no-spike updater only in the no-spike branch; so each path of the
\* kernel holds at most one write of the State's slot, and none when the
\* updater that applies to it is None.
C37_UpdateEmittedOncePerPath ==
    (last_op = "generate" /\ result = "ok") =>
        LET independent == Emitted(trace, "in_independent_state_updates")
            spike == Emitted(trace, "in_spike_state_updates")
            no_spike == Emitted(trace, "in_no_spike_state_updates")
            same == spike_updater = no_spike_updater
        IN  /\ Cardinality(independent) =
                   IF same /\ spike_updater # "None" THEN 1 ELSE 0
            /\ Cardinality(spike) =
                   IF ~same /\ spike_updater # "None" THEN 1 ELSE 0
            /\ Cardinality(no_spike) =
                   IF ~same /\ no_spike_updater # "None" THEN 1 ELSE 0
            /\ \A i \in independent \cup spike :
                   trace[i].updater = spike_updater
            /\ \A i \in no_spike : trace[i].updater = no_spike_updater
            /\ Cardinality(independent) + Cardinality(spike) <= 1
            /\ Cardinality(independent) + Cardinality(no_spike) <= 1

\* generate() has returned for a State whose two updaters are equal: the one
\* update is in independent_state_updates
C37_Witness ==
    /\ last_op = "generate" /\ result = "ok"
    /\ spike_updater = "v_new" /\ no_spike_updater = "v_new"
    /\ Cardinality(Emitted(trace, "in_independent_state_updates")) = 1
    /\ Emitted(trace, "in_spike_state_updates") = {}

\* C38: when AtomicReceiver.on_prepare_step_fn_odd has returned, the two
\* bindings are exchanged: constants["in"] is the receiver's out buffer and
\* constants["out"] its in buffer, whether or not the buffers had been
\* realized before the callback. The odd kernel is compiled against constants
\* as the callback left it.
C38_ExchangeAlways ==
    (/\ last_op = "run"
     /\ \E i \in 1 .. Len(trace) :
            /\ trace[i].ev = "callback"
            /\ trace[i].hook = "on_prepare_step_fn_odd"
            /\ Kind[trace[i].node] = "AtomicReceiver"
     /\ step_fn_odd.compiled) =>
        /\ buffer[AllocIn] # 0 /\ buffer[AllocOut] # 0
        /\ step_fn_odd.bindings[AllocIn] = buffer[AllocOut]
        /\ step_fn_odd.bindings[AllocOut] = buffer[AllocIn]

\* The entry of a run() call: the step from idle that makes run the
\* operation in progress.
RunEntered == pc = "idle" /\ last_op' = "run"
\* The number of times the call has triggered a stage.
Triggered(tr, hook) == Cardinality(TriggersOf(tr, hook))
\* Every trigger of the first stage precedes every trigger of the second.
TriggeredBefore(tr, first, second) ==
    \A i \in TriggersOf(tr, first), j \in TriggersOf(tr, second) : i < j

C39_Step ==
    /\ RunEntered =>
          /\ Triggered(trace', "on_prepare_step_fn_even") =
                 IF step_fn_even.compiled THEN 0 ELSE 1
          /\ Triggered(trace', "on_prepare_step_fn_odd") =
                 IF step_fn_odd.compiled THEN 0 ELSE 1
          /\ step_fn_even'.compiled /\ step_fn_odd'.compiled
          /\ Triggered(trace', "prepare_run") = 1
          /\ TriggeredBefore(trace', "on_prepare_step_fn_even",
                             "on_prepare_step_fn_odd")
          /\ TriggeredBefore(trace', "on_prepare_step_fn_even", "prepare_run")
          /\ TriggeredBefore(trace', "on_prepare_step_fn_odd", "prepare_run")
          /\ Triggered(trace', "in_step_kernel") = IF generated THEN 0 ELSE 1
          /\ Cardinality({i \in 1 .. Len(trace') :
                 /\ trace'[i].ev = "callback"
                 /\ trace'[i].hook = "on_prepare_step_fn_odd"}) =
                 IF step_fn_odd.compiled \/ Parent[AllocIn] \notin exists'
                 THEN 0 ELSE Triggered(trace', "on_prepare_step_fn_odd")
    /\ ~RunEntered =>
          \A hook \in {"on_prepare_step_fn_even", "on_prepare_step_fn_odd"} :
              Triggered(trace', hook) =
                  IF pc = "idle" THEN 0 ELSE Triggered(trace, hook)
    /\ step_fn_even.compiled => step_fn_even' = step_fn_even
    /\ step_fn_odd.compiled => step_fn_odd' = step_fn_odd

\* C39: over any sequence of calls the stages prepare_step_fn_even and
\* prepare_step_fn_odd are triggered once each, by the first run(): a run()
\* triggers the stage of a kernel exactly when the kernel has not been
\* compiled, even before odd and both before prepare_run, and leaves both
\* kernels compiled; no other call triggers them; a compiled kernel is never
\* compiled again; a run() triggers generate() at most once and only when
\* generated is false; the receiver's exchange callback runs once, with the
\* odd stage.
C39_KernelsPreparedOnce == [][C39_Step]_vars

\* a second run() has returned right after a first: the first has triggered
\* both stages, the second neither
C39_Witness ==
    /\ last_op = "run" /\ pc = "idle" /\ result = "ok"
    /\ Triggered(prev_run, "on_prepare_step_fn_even") = 1
    /\ Triggered(prev_run, "on_prepare_step_fn_odd") = 1
    /\ Triggered(trace, "on_prepare_step_fn_even") = 0
    /\ Triggered(trace, "on_prepare_step_fn_odd") = 0
    /\ step_fn_even.compiled /\ step_fn_odd.compiled

\* C40: the finalize-stage callbacks of a node run at most once over the
\* lifetime of a simulation, also when a finalize() call fails the root's
\* check and finalize() is called again on the corrected configuration:
\* AtomicReceiver.pre_finalize has appended its term to the reader of the
\* spike target at most once, and a call that triggers the finalize stages
\* finds no term appended by a call before it.
C40_FinalizeCallbacksAtMostOnce ==
    /\ reader_weights <= 1
    /\ (last_op \in {"finalize", "allocate"}
            /\ TriggersOf(trace, "pre_finalize") # {}
            /\ Parent[AllocIn] \in exists) =>
           reader_weights = 1

====
